---- MODULE Spec2Model ----
(***************************************************************************)
(* The lot service (services/lotService.ts) and the /lots routes           *)
(* (routes/lots.ts) of the smart-parking backend.                          *)
(*                                                                         *)
(* Numbers.  The program computes in doubles, and so does the model (see   *)
(* Round).  The percentages of the records (occupancyRate,                 *)
(* predictedOccupancy), which the program rounds to two decimals or to     *)
(* one, are kept as integers counting hundredths of a percent: 68.7 % is   *)
(* 6870.  Math.random() is an integer counting units of 1 / RandomSteps.   *)
(* The confidence of a point is the double the program computes, a        *)
(* [sign, m, e] (see Round); the confidence of the whole prediction, the   *)
(* literal 0.85, is 85, counting hundredths.  A Date is an integer         *)
(* counting the minutes elapsed since the local midnight of the first day; *)
(* a time zone is [at, by]: from the instant at on, its clocks show by     *)
(* minutes more (by = 0: no change of the clocks).                         *)
(* null is <<>> and a present value x is <<x>>.                            *)
(***************************************************************************)
EXTENDS Integers, Sequences, FiniteSets, TLC

VARIABLES
    lotTable,      \* ParkingLot table: lotId -> <<>> or <<static lot record>>
    spaceTable,    \* ParkingSpace table: the space records, in index order
    storeUp,       \* whether dynamoDB.send succeeds
    useMockData,   \* LotService.useMockData
    req,           \* the HTTP request being answered, <<>> when none
    res,           \* its response, <<>> when none
    calls,         \* what the handler did: store commands sent, points generated
    clock,         \* the client's time, in minutes
    clientZone,    \* when the client's clocks change, and by how much
    predictionsState, \* the client's predictions slice (state.predictions)
    inflight,      \* per lot, the fetchPrediction thunks whose request is not settled
    cached,        \* the stored predictions returned by fetchPrediction, not yet fulfilled
    refreshing,    \* per lot, the refreshPrediction thunks whose request is not settled
    batches,       \* the fetchMultiplePredictions thunks not settled: their requests
    served,        \* per lot, when a prediction last came into the slice from outside
    userTable,     \* User table: userId -> <<>> or <<user record>>
    regs,          \* the POST /auth/register calls: where each is, and its response
    authReq,       \* the POST /auth/login or /auth/refresh being answered, <<>> when none
    authRes,       \* its response, <<>> when none
    socket,        \* WebSocketService.socket: <<>> or <<[connected |-> ...]>>
    orphans,       \* the sockets connect() replaced without closing them
    subscribedLots, \* WebSocketService.subscribedLots, in insertion order
    channel,       \* the messages emitted on this.socket that the server has not handled
    rooms,         \* the lots whose room the server-side socket of this.socket has joined
    lastCall,      \* the last call or event of the service and what it emitted
    lotsState,     \* the client's lots slice (state.lots)
    lotsInflight,  \* the fetchLots thunks whose request is not settled
    lotsCalls      \* the getAllLots calls that run side by side, by call

server == <<lotTable, spaceTable, storeUp, useMockData, req, res, calls>>
thunks == <<inflight, cached, refreshing, batches>>
client == <<clock, clientZone, predictionsState, thunks, served>>
auth == <<userTable, regs, authReq, authRes>>
ws == <<socket, orphans, subscribedLots, channel, rooms, lastCall>>
slice == <<lotsState, lotsInflight>>
exceptServer == <<client, auth, ws, slice, lotsCalls>>
exceptClient == <<server, auth, ws, slice, lotsCalls>>
exceptAuth == <<server, client, ws, slice, lotsCalls>>
exceptWs == <<server, client, auth, slice, lotsCalls>>
exceptSlice == <<server, client, auth, ws, lotsCalls>>
exceptCalls == <<lotTable, spaceTable, storeUp, req, res, calls, client, auth, ws, slice>>
vars == <<lotTable, spaceTable, storeUp, useMockData, req, res, calls,
          clock, clientZone, predictionsState, inflight, cached, refreshing, batches,
          served,
          userTable, regs, authReq, authRes,
          socket, orphans, subscribedLots, channel, rooms, lastCall,
          lotsState, lotsInflight, lotsCalls>>

(***************************************************************************)
(* Bounds of the model.                                                    *)
(***************************************************************************)
MaxSpaces == 3     \* space records in the table (aggregation specification)
LargeSpaces == 160 \* space records of the one large lot of the aggregation specification
LargeOccupied == 23 \* how many of them are occupied
MaxPeriod == 2     \* period of the sequence of Math.random() draws
MaxClock == 7      \* minutes the client is followed for
MaxInflight == 1   \* thunks of the predictions slice that await a request, or their fulfilled action
MaxBatch == 2      \* length of the list given to fetchMultiplePredictions
MaxRegisters == 2  \* POST /auth/register calls followed
MaxChannel == 2    \* emitted messages the server has not handled yet
MaxVisible == 2    \* length of the list given to subscribeToVisible
MaxOrphans == 1    \* sockets that connect() replaced without closing them
MaxDrift == 2      \* how far availableSpaces is followed outside 0..totalSpaces
MaxPayload == 2    \* lots in a fetchLots or refreshLots response
MaxCalls == 2      \* getAllLots calls that run side by side
RandomSteps == 1000 \* values Math.random() is drawn from: multiples of 1 / RandomSteps

(***************************************************************************)
(* Program constants.                                                      *)
(***************************************************************************)
DefaultHours == 3
MinHours == 1
MaxHours == 12
BaseConfidence == 85
ConfidenceStep == 5
TrendThreshold == 3
HighDemandThreshold == 8500
LimitedSpaces == 10
CacheMinutes == 5
MinPasswordLength == 8
AccessExpiresIn == 60          \* '1h', in minutes
RefreshExpiresIn == 10080      \* '7d', in minutes
ExpiresInSeconds == 3600

Statuses == {"available", "occupied", "reserved", "offline"}
StoredLotIds == {"lot-1", "lot-2"}
LotIds == StoredLotIds \cup {"lot-9"}

Null == <<>>
Some(x) == <<x>>


(***************************************************************************)
(* Natural numbers of any size, for the significands of doubles: the       *)
(* sequence of the digits in base Limb, the least significant first and    *)
(* the last one not 0; <<>> is 0.  Every intermediate value stays below    *)
(* 2^31.                                                                   *)
(***************************************************************************)
Limb == 32768
LimbBits == 15

RECURSIVE Pow2(_)
Pow2(n) == IF n = 0 THEN 1 ELSE 2 * Pow2(n - 1)

RECURSIVE Bits(_)
Bits(n) == IF n = 0 THEN 0 ELSE 1 + Bits(n \div 2)

RECURSIVE Normal(_)
Normal(a) ==
    IF a = <<>> \/ a[Len(a)] # 0 THEN a ELSE Normal(SubSeq(a, 1, Len(a) - 1))

RECURSIVE Natural(_)
Natural(n) == IF n = 0 THEN <<>> ELSE <<n % Limb>> \o Natural(n \div Limb)

RECURSIVE Value(_)
Value(a) == IF a = <<>> THEN 0 ELSE a[1] + Limb * Value(Tail(a))

(***************************************************************************)
(* a * k + carry for k < Limb; a + b + carry; a - b - borrow for a >= b    *)
(* (not normalised); a * b.                                                *)
(***************************************************************************)
RECURSIVE Times(_, _, _)
Times(a, k, carry) ==
    IF a = <<>> THEN Natural(carry)
    ELSE LET t == a[1] * k + carry
         IN  <<t % Limb>> \o Times(Tail(a), k, t \div Limb)

RECURSIVE Plus(_, _, _)
Plus(a, b, carry) ==
    IF a = <<>> /\ b = <<>> THEN Natural(carry)
    ELSE LET t == (IF a = <<>> THEN 0 ELSE a[1]) + (IF b = <<>> THEN 0 ELSE b[1]) + carry
         IN  <<t % Limb>> \o Plus(IF a = <<>> THEN a ELSE Tail(a),
                                  IF b = <<>> THEN b ELSE Tail(b), t \div Limb)

RECURSIVE Minus(_, _, _)
Minus(a, b, borrow) ==
    IF a = <<>> THEN <<>>
    ELSE LET t == a[1] - (IF b = <<>> THEN 0 ELSE b[1]) - borrow
         IN  <<t % Limb>> \o Minus(Tail(a), IF b = <<>> THEN b ELSE Tail(b),
                                   IF t < 0 THEN 1 ELSE 0)

RECURSIVE Product(_, _)
Product(a, b) ==
    IF a = <<>> \/ b = <<>> THEN <<>>
    ELSE Plus(Times(a, b[1], 0),
              IF Tail(b) = <<>> THEN <<>> ELSE <<0>> \o Product(a, Tail(b)), 0)

(***************************************************************************)
(* -1, 0 or 1 as a is below, equal to or above b.                          *)
(***************************************************************************)
RECURSIVE CompareFrom(_, _, _)
CompareFrom(a, b, k) ==
    IF k = 0 THEN 0
    ELSE IF a[k] # b[k] THEN (IF a[k] < b[k] THEN -1 ELSE 1)
    ELSE CompareFrom(a, b, k - 1)

Compare(a, b) ==
    IF Len(a) # Len(b) THEN (IF Len(a) < Len(b) THEN -1 ELSE 1)
    ELSE CompareFrom(a, b, Len(a))

(***************************************************************************)
(* Quotient (not normalised) and remainder of a by an integer d >= 1: a    *)
(* digit at a time where r * Limb fits, otherwise a bit at a time.         *)
(***************************************************************************)
RECURSIVE DivideBits(_, _, _, _)
DivideBits(r, limb, d, k) ==
    IF k = 0 THEN [q |-> 0, r |-> r]
    ELSE LET bit == (limb \div Pow2(k - 1)) % 2
             over == r >= d - r - bit
             low == DivideBits(IF over THEN r - (d - r - bit) ELSE 2 * r + bit,
                               limb, d, k - 1)
         IN  [q |-> (IF over THEN Pow2(k - 1) ELSE 0) + low.q, r |-> low.r]

RECURSIVE Divide(_, _)
Divide(a, d) ==
    IF a = <<>> THEN [q |-> <<>>, r |-> 0]
    ELSE LET high == Divide(Tail(a), d)
             here == IF d < 2 * Limb
                     THEN [q |-> (high.r * Limb + a[1]) \div d,
                           r |-> (high.r * Limb + a[1]) % d]
                     ELSE DivideBits(high.r, a[1], d, LimbBits)
         IN  [q |-> <<here.q>> \o high.q, r |-> here.r]

(***************************************************************************)
(* The number of bits of a; a * 2^n; a \div 2^n; bit i of a (bit 0 the     *)
(* lowest); whether a bit of a below bit n is set.                         *)
(***************************************************************************)
BitLength(a) == IF a = <<>> THEN 0 ELSE LimbBits * (Len(a) - 1) + Bits(a[Len(a)])

ShiftLeft(a, n) ==
    IF a = <<>> THEN a
    ELSE Times([k \in 1..(n \div LimbBits) |-> 0] \o a, Pow2(n % LimbBits), 0)

ShiftRight(a, n) ==
    IF n \div LimbBits >= Len(a) THEN <<>>
    ELSE Normal(Divide(SubSeq(a, (n \div LimbBits) + 1, Len(a)), Pow2(n % LimbBits)).q)

Bit(a, i) ==
    IF i \div LimbBits >= Len(a) THEN 0
    ELSE (a[(i \div LimbBits) + 1] \div Pow2(i % LimbBits)) % 2

AnyBelow(a, n) ==
    \/ \E k \in 1..Len(a) : k <= n \div LimbBits /\ a[k] # 0
    \/ /\ n \div LimbBits < Len(a)
       /\ a[(n \div LimbBits) + 1] % Pow2(n % LimbBits) # 0

(***************************************************************************)
(* JavaScript numbers.  A double is [sign, m, e], the number               *)
(* sign * m * 2^e with m a natural number of at most Precision bits; zero  *)
(* is Zero.  The program's numbers are far from the largest and the        *)
(* smallest doubles, so e is not bounded.  Round is the rounding every     *)
(* operation ends with: the double nearest to sign * m * 2^e (plus a       *)
(* fraction of 2^e when sticky), a tie going to the even significand.      *)
(***************************************************************************)
Precision == 53

Zero == [sign |-> 1, m |-> <<>>, e |-> 0]

Round(sign, m, e, sticky) ==
    LET k == BitLength(m) - Precision
        q == ShiftRight(m, k)
        up == Bit(m, k - 1) = 1 /\ (sticky \/ AnyBelow(m, k - 1) \/ Bit(m, k) = 1)
    IN  IF m = <<>> THEN Zero
        ELSE IF k <= 0 THEN [sign |-> sign, m |-> m, e |-> e]
        ELSE [sign |-> sign, m |-> IF up THEN Plus(q, <<>>, 1) ELSE q, e |-> e + k]

(***************************************************************************)
(* The double of an integer.                                               *)
(***************************************************************************)
Double(n) ==
    [sign |-> IF n < 0 THEN -1 ELSE 1, m |-> Natural(IF n < 0 THEN -n ELSE n), e |-> 0]

Negate(x) == [x EXCEPT !.sign = -x.sign]

(***************************************************************************)
(* The significands of x and y over their lower exponent.                  *)
(***************************************************************************)
Aligned(x, y) ==
    LET e == IF x.e < y.e THEN x.e ELSE y.e
    IN  [a |-> ShiftLeft(x.m, x.e - e), b |-> ShiftLeft(y.m, y.e - e), e |-> e]

(***************************************************************************)
(* x < y, x == y, x > y: -1, 0 or 1.                                       *)
(***************************************************************************)
Order(x, y) ==
    IF x.m = <<>> /\ y.m = <<>> THEN 0
    ELSE IF x.m = <<>> THEN -y.sign
    ELSE IF y.m = <<>> THEN x.sign
    ELSE IF x.sign # y.sign THEN x.sign
    ELSE x.sign * Compare(Aligned(x, y).a, Aligned(x, y).b)

(***************************************************************************)
(* x + y, x - y, x * y, and x / d for an integer d >= 1.                   *)
(***************************************************************************)
Sum(x, y) ==
    LET al == Aligned(x, y)
        c == Compare(al.a, al.b)
    IN  IF x.sign = y.sign THEN Round(x.sign, Plus(al.a, al.b, 0), al.e, FALSE)
        ELSE IF c = 0 THEN Zero
        ELSE IF c > 0 THEN Round(x.sign, Normal(Minus(al.a, al.b, 0)), al.e, FALSE)
        ELSE Round(y.sign, Normal(Minus(al.b, al.a, 0)), al.e, FALSE)

Difference(x, y) == Sum(x, Negate(y))

Multiplied(x, y) == Round(x.sign * y.sign, Product(x.m, y.m), x.e + y.e, FALSE)

Divided(x, d) ==
    LET s == Precision + 3 + Bits(d)
        dm == Divide(ShiftLeft(x.m, s), d)
    IN  Round(x.sign, Normal(dm.q), x.e - s, dm.r # 0)

(***************************************************************************)
(* Math.round(x): the nearest integer, a half going up.                    *)
(***************************************************************************)
MathRound(x) ==
    IF x.e >= 0 THEN x.sign * Value(ShiftLeft(x.m, x.e))
    ELSE LET q == Value(ShiftRight(x.m, -x.e))
             half == Bit(x.m, -x.e - 1) = 1
         IN  IF x.sign = 1 THEN q + (IF half THEN 1 ELSE 0)
             ELSE -(q + (IF half /\ AnyBelow(x.m, -x.e - 1) THEN 1 ELSE 0))

(***************************************************************************)
(* Math.min(x, y) and Math.max(x, y).                                      *)
(***************************************************************************)
MathMin(x, y) == IF Order(y, x) < 0 THEN y ELSE x
MathMax(x, y) == IF Order(y, x) > 0 THEN y ELSE x

(***************************************************************************)
(* The double a number with two decimals reads as, the number given in     *)
(* hundredths: n / 100.                                                    *)
(***************************************************************************)
Percent(n) == Divided(Double(n), 100)

(***************************************************************************)
(* Mutants of CountStatus: reserved spaces tallied as occupied; every      *)
(* space that is not available tallied as occupied.                        *)
(***************************************************************************)
CountStatusReservedOccupied(spaces, st) ==
    Len(SelectSeq(spaces, LAMBDA s :
        s.status = st \/ (st = "occupied" /\ s.status = "reserved")))

CountStatusNotAvailable(spaces, st) ==
    Len(SelectSeq(spaces, LAMBDA s :
        IF st = "occupied" THEN s.status # "available" ELSE s.status = st))

(***************************************************************************)
(* spaces.filter(s => s.status === st).length                              *)
(***************************************************************************)
CountStatus(spaces, st) == Len(SelectSeq(spaces, LAMBDA s : s.status = st))

(***************************************************************************)
(* totalSpaces > 0 ? Math.round((occupied / total) * 100 * 100) / 100 : 0  *)
(* The result is the integer Math.round gives, the rate in hundredths; the *)
(* rate itself is the double Percent of it.                                *)
(***************************************************************************)
OccupancyRate(occupiedSpaces, totalSpaces) ==
    IF totalSpaces > 0
    THEN MathRound(Multiplied(Multiplied(Divided(Double(occupiedSpaces), totalSpaces),
                                         Double(100)), Double(100)))
    ELSE 0

(***************************************************************************)
(* Mutant of TotalSpaces: the static capacity preferred to the live count. *)
(***************************************************************************)
TotalSpacesStaticFirst(spaces, lot) ==
    IF lot.totalSpaces # 0 THEN lot.totalSpaces ELSE Len(spaces)

(***************************************************************************)
(* spaces.length || lot.totalSpaces                                        *)
(***************************************************************************)
TotalSpaces(spaces, lot) == IF Len(spaces) # 0 THEN Len(spaces) ELSE lot.totalSpaces

(***************************************************************************)
(* The aggregation of getLotById (lines 119-135).                          *)
(***************************************************************************)
AggregateLot(lot, spaces) ==
    LET availableSpaces == CountStatus(spaces, "available")
        occupiedSpaces == CountStatus(spaces, "occupied")
        offlineSpaces == CountStatus(spaces, "offline")
        totalSpaces == TotalSpaces(spaces, lot)
    IN  [lotId |-> lot.lotId,
         totalSpaces |-> totalSpaces,
         availableSpaces |-> availableSpaces,
         occupiedSpaces |-> occupiedSpaces,
         offlineSpaces |-> offlineSpaces,
         occupancyRate |-> OccupancyRate(occupiedSpaces, totalSpaces)]
(***************************************************************************)
(* Mutant of LotWithOccupancy: the list keeps the stored capacity when     *)
(* there is one.                                                           *)
(***************************************************************************)
LotWithOccupancyStoredTotal(lot, spaces) ==
    LET availableSpaces == Len(SelectSeq(spaces, LAMBDA s : s.status = "available"))
        occupiedSpaces == Len(SelectSeq(spaces, LAMBDA s : s.status = "occupied"))
        offlineSpaces == Len(SelectSeq(spaces, LAMBDA s : s.status = "offline"))
        totalSpaces == IF lot.totalSpaces # 0 THEN lot.totalSpaces ELSE Len(spaces)
    IN  [lotId |-> lot.lotId,
         totalSpaces |-> totalSpaces,
         availableSpaces |-> availableSpaces,
         occupiedSpaces |-> occupiedSpaces,
         offlineSpaces |-> offlineSpaces,
         occupancyRate |-> IF totalSpaces > 0
                              THEN MathRound(Multiplied(Multiplied(
                                       Divided(Double(occupiedSpaces), totalSpaces),
                                       Double(100)), Double(100)))
                              ELSE 0]

(***************************************************************************)
(* The aggregation of getAllLots' map callback (lines 76-92), a second     *)
(* copy of the same code.                                                  *)
(***************************************************************************)
LotWithOccupancy(lot, spaces) ==
    LET availableSpaces == Len(SelectSeq(spaces, LAMBDA s : s.status = "available"))
        occupiedSpaces == Len(SelectSeq(spaces, LAMBDA s : s.status = "occupied"))
        offlineSpaces == Len(SelectSeq(spaces, LAMBDA s : s.status = "offline"))
        totalSpaces == IF Len(spaces) # 0 THEN Len(spaces) ELSE lot.totalSpaces
    IN  [lotId |-> lot.lotId,
         totalSpaces |-> totalSpaces,
         availableSpaces |-> availableSpaces,
         occupiedSpaces |-> occupiedSpaces,
         offlineSpaces |-> offlineSpaces,
         occupancyRate |-> IF totalSpaces > 0
                              THEN MathRound(Multiplied(Multiplied(
                                       Divided(Double(occupiedSpaces), totalSpaces),
                                       Double(100)), Double(100)))
                              ELSE 0]

MOCK_LOTS ==
    << [lotId |-> "lot-1", totalSpaces |-> 150, availableSpaces |-> 42,
        occupiedSpaces |-> 103, offlineSpaces |-> 5, occupancyRate |-> 6870],
       [lotId |-> "lot-2", totalSpaces |-> 200, availableSpaces |-> 15,
        occupiedSpaces |-> 180, offlineSpaces |-> 5, occupancyRate |-> 9000],
       [lotId |-> "lot-3", totalSpaces |-> 100, availableSpaces |-> 67,
        occupiedSpaces |-> 30, offlineSpaces |-> 3, occupancyRate |-> 3000] >>
(***************************************************************************)
(* An async method is followed from one await to the next: it is given the *)
(* answers its awaits have had so far, in order, and runs up to the first  *)
(* await that has none (Awaits), or to its end: a value (Returned) or an   *)
(* exception (Threw).  calls are the store commands it has sent by then,   *)
(* the one it awaits included.                                             *)
(***************************************************************************)
Returned(v, c) == [awaits |-> FALSE, threw |-> FALSE, value |-> v, calls |-> c]
Threw(c) == [awaits |-> FALSE, threw |-> TRUE, value |-> Null, calls |-> c]
Awaits(c) == [awaits |-> TRUE, threw |-> FALSE, value |-> Null, calls |-> c]

(***************************************************************************)
(* The answer of an await: the promise is rejected, or resolved with data. *)
(***************************************************************************)
Rejected == [rejected |-> TRUE, data |-> Null]
Resolved(data) == [rejected |-> FALSE, data |-> data]

(***************************************************************************)
(* dynamoDB.send of the GetCommand of getLotById and of the QueryCommand   *)
(* of getSpacesByLotId, at the time it settles: rejected when the store is *)
(* unreachable or this one command fails; otherwise the Item (none: <<>>), *)
(* or the Items of the lotId index.                                        *)
(***************************************************************************)
QueryItems(lotId) == SelectSeq(spaceTable, LAMBDA s : s.lotId = lotId)

SendGet(lotId, rejected) ==
    IF ~storeUp \/ rejected THEN Rejected ELSE Resolved(lotTable[lotId])

SendQuery(lotId, rejected) ==
    IF ~storeUp \/ rejected THEN Rejected ELSE Resolved(QueryItems(lotId))

(***************************************************************************)
(* LotService.getSpacesByLotId: one Query on the lotId index.              *)
(***************************************************************************)
getSpacesByLotId(lotId, answers) ==
    IF answers = <<>> THEN Awaits(<<"Query">>)
    ELSE IF answers[1].rejected THEN Threw(<<"Query">>)
    ELSE Returned(answers[1].data, <<"Query">>)

(***************************************************************************)
(* Mutant of getLotById: the spaces are queried before the item is looked  *)
(* at.                                                                     *)
(***************************************************************************)
getLotByIdQueryFirst(lotId, answers) ==
    IF answers = <<>> THEN Awaits(<<"Get">>)
    ELSE IF answers[1].rejected THEN Threw(<<"Get">>)
    ELSE LET q == getSpacesByLotId(lotId, Tail(answers))
         IN  IF q.awaits THEN Awaits(<<"Get">> \o q.calls)
             ELSE IF q.threw THEN Threw(<<"Get">> \o q.calls)
             ELSE IF answers[1].data = Null THEN Returned(Null, <<"Get">> \o q.calls)
             ELSE Returned(Some(AggregateLot(answers[1].data[1], q.value)),
                           <<"Get">> \o q.calls)

(***************************************************************************)
(* Mutant of getLotById: once the latch is set, a lot of MOCK_LOTS is      *)
(* served from there without a store command.                              *)
(***************************************************************************)
getLotByIdFromMock(lotId, answers) ==
    IF useMockData /\ \E k \in DOMAIN MOCK_LOTS : MOCK_LOTS[k].lotId = lotId
    THEN Returned(Some(MOCK_LOTS[CHOOSE k \in DOMAIN MOCK_LOTS :
                                    MOCK_LOTS[k].lotId = lotId]), <<>>)
    ELSE IF answers = <<>> THEN Awaits(<<"Get">>)
    ELSE IF answers[1].rejected THEN Threw(<<"Get">>)
    ELSE IF answers[1].data = Null THEN Returned(Null, <<"Get">>)
    ELSE LET lot == answers[1].data[1]
             q == getSpacesByLotId(lotId, Tail(answers))
         IN  IF q.awaits THEN Awaits(<<"Get">> \o q.calls)
             ELSE IF q.threw THEN Threw(<<"Get">> \o q.calls)
             ELSE Returned(Some(AggregateLot(lot, q.value)), <<"Get">> \o q.calls)

(***************************************************************************)
(* LotService.getLotById: the Get is awaited; null when there is no item;  *)
(* otherwise getSpacesByLotId is awaited and the lot is aggregated over    *)
(* its spaces.                                                             *)
(***************************************************************************)
getLotById(lotId, answers) ==
    IF answers = <<>> THEN Awaits(<<"Get">>)
    ELSE IF answers[1].rejected THEN Threw(<<"Get">>)
    ELSE IF answers[1].data = Null THEN Returned(Null, <<"Get">>)
    ELSE LET lot == answers[1].data[1]
             q == getSpacesByLotId(lotId, Tail(answers))
         IN  IF q.awaits THEN Awaits(<<"Get">> \o q.calls)
             ELSE IF q.threw THEN Threw(<<"Get">> \o q.calls)
             ELSE Returned(Some(AggregateLot(lot, q.value)), <<"Get">> \o q.calls)

(***************************************************************************)
(* The items a Scan of the lot table returns.  A Scan promises no order:   *)
(* the stored lots come in any one of their orders.                        *)
(***************************************************************************)
ScanOrders ==
    LET ids == {id \in LotIds : lotTable[id] # Null}
        n == Cardinality(ids)
    IN  {o \in [1..n -> ids] : \A i, j \in 1..n : o[i] = o[j] => i = j}
ScanLots(order) == [k \in 1..Len(order) |-> lotTable[order[k]][1]]

(***************************************************************************)
(* The store commands of one live getAllLots: the Scan, then one Query per *)
(* scanned lot.  The map callbacks all start before Promise.all is         *)
(* awaited, so every Query is sent even when one of them is rejected.      *)
(***************************************************************************)
LotsCommands(lots) == <<"Scan">> \o [k \in 1..Len(lots) |-> "Query"]

(***************************************************************************)
(* LotService.getAllLots, await by await, for calls that run side by side  *)
(* on the one lotService.  A call reads useMockData when it starts, then   *)
(* awaits the Scan, then awaits the Promise.all of the Queries; its catch  *)
(* block sets useMockData.  A call is where it stands (pc), the lots its   *)
(* Scan returned, the value it returns, the store commands it has sent,    *)
(* whether one of them was rejected, and the values of useMockData when it *)
(* started and when it returned.                                           *)
(***************************************************************************)
CallIds == 1..MaxCalls

IdleCall ==
    [pc |-> "idle", lots |-> <<>>, value |-> Null, sent |-> <<>>,
     rejected |-> FALSE, latchAtStart |-> FALSE, latchAtReturn |-> FALSE]

CallsInit == lotsCalls = [c \in CallIds |-> IdleCall]

(***************************************************************************)
(* Mutant of startAllLots: the call sends the Scan whatever the flag is.   *)
(***************************************************************************)
startAllLotsIgnoresLatch(flag) ==
    [IdleCall EXCEPT !.pc = "scan", !.sent = <<"Scan">>, !.latchAtStart = flag]

(***************************************************************************)
(* The call up to its first await: the mock lots at once when the flag is  *)
(* set, otherwise the Scan is sent.                                        *)
(***************************************************************************)
startAllLots(flag) ==
    IF flag
    THEN [IdleCall EXCEPT !.pc = "done", !.value = Some(MOCK_LOTS),
                          !.latchAtStart = TRUE, !.latchAtReturn = TRUE]
    ELSE [IdleCall EXCEPT !.pc = "scan", !.sent = <<"Scan">>]

(***************************************************************************)
(* The catch block: the flag is set and the mock lots are returned.        *)
(***************************************************************************)
catchAllLots(call) ==
    [call |-> [call EXCEPT !.pc = "done", !.value = Some(MOCK_LOTS),
                           !.latchAtReturn = TRUE],
     useMockData |-> TRUE]

(***************************************************************************)
(* The scanned lots of a call, each aggregated over the Items of its       *)
(* Query.                                                                  *)
(***************************************************************************)
AggregatedLots(lots) ==
    [k \in 1..Len(lots) |-> LotWithOccupancy(lots[k], QueryItems(lots[k].lotId))]

(***************************************************************************)
(* Mutant of afterQueries: the latch is dropped when the store answers     *)
(* again.                                                                  *)
(***************************************************************************)
afterQueriesRetry(call, flag, failAt) ==
    IF failAt \in 1..Len(call.lots) THEN catchAllLots(call)
    ELSE [call |-> [call EXCEPT !.pc = "done",
                                !.value = Some(AggregatedLots(call.lots)),
                                !.latchAtReturn = FALSE],
          useMockData |-> FALSE]

(***************************************************************************)
(* Mutant of afterQueries: a rejected Query is caught inside the map       *)
(* callback and only that lot is replaced by its mock entry.               *)
(***************************************************************************)
afterQueriesPartial(call, flag, failAt) ==
    [call |-> [call EXCEPT !.pc = "done",
                           !.value = Some([k \in 1..Len(call.lots) |->
                                              IF failAt = k THEN MOCK_LOTS[k]
                                              ELSE AggregatedLots(call.lots)[k]]),
                           !.latchAtReturn = flag \/ failAt \in 1..Len(call.lots)],
     useMockData |-> flag \/ failAt \in 1..Len(call.lots)]

(***************************************************************************)
(* The call from the settled Promise.all to its return.  failAt is the     *)
(* number of the scanned lot whose Query was rejected, 0 when none was:    *)
(* the catch block then, otherwise the aggregated lots.                    *)
(***************************************************************************)
afterQueries(call, flag, failAt) ==
    IF failAt \in 1..Len(call.lots) THEN catchAllLots(call)
    ELSE [call |-> [call EXCEPT !.pc = "done",
                                !.value = Some(AggregatedLots(call.lots)),
                                !.latchAtReturn = flag],
          useMockData |-> flag]

(***************************************************************************)
(* The call from the settled Scan to its next await: the catch block when  *)
(* the Scan was rejected, otherwise one Query per scanned lot is sent.     *)
(* When the Scan has no lot there is no Query and nothing to wait for:     *)
(* Promise.all([]) is settled already and the call goes on to its return.  *)
(* The result is the call and the value useMockData has afterwards.        *)
(***************************************************************************)
afterScan(call, flag, rejected, lots) ==
    IF rejected THEN catchAllLots(call)
    ELSE IF lots = <<>>
    THEN afterQueries([call EXCEPT !.lots = lots, !.sent = LotsCommands(lots)], flag, 0)
    ELSE [call |-> [call EXCEPT !.pc = "queries", !.lots = lots,
                                !.sent = LotsCommands(lots)],
          useMockData |-> flag]

(***************************************************************************)
(* Mutant of BasePrediction: the afternoon band adds 15, like the morning  *)
(* one.                                                                    *)
(***************************************************************************)
BasePredictionAfternoonFifteen(occupancyRate, hour) ==
    IF hour >= 9 /\ hour <= 11 THEN MathMin(Double(95), Sum(occupancyRate, Double(15)))
    ELSE IF hour >= 14 /\ hour <= 16 THEN MathMin(Double(95), Sum(occupancyRate, Double(15)))
    ELSE IF hour >= 17 /\ hour <= 19 THEN MathMax(Double(20), Difference(occupancyRate, Double(15)))
    ELSE occupancyRate

(***************************************************************************)
(* The time-of-day bias of getPrediction (lines 172-179) for a local hour; *)
(* occupancyRate and the result are doubles.                               *)
(***************************************************************************)
BasePrediction(occupancyRate, hour) ==
    IF hour >= 9 /\ hour <= 11 THEN MathMin(Double(95), Sum(occupancyRate, Double(15)))
    ELSE IF hour >= 14 /\ hour <= 16 THEN MathMin(Double(95), Sum(occupancyRate, Double(20)))
    ELSE IF hour >= 17 /\ hour <= 19 THEN MathMax(Double(20), Difference(occupancyRate, Double(15)))
    ELSE occupancyRate

(***************************************************************************)
(* (Math.random() - 0.5) * 10, for the draw random / RandomSteps.          *)
(***************************************************************************)
Variance(random) ==
    Multiplied(Difference(Divided(Double(random), RandomSteps), Divided(Double(1), 2)),
               Double(10))

(***************************************************************************)
(* Mutant of PredictedOccupancy: no clamp.                                 *)
(***************************************************************************)
PredictedOccupancyUnclamped(basePrediction, variance) == Sum(basePrediction, variance)

(***************************************************************************)
(* Math.max(0, Math.min(100, basePrediction + variance))                   *)
(***************************************************************************)
PredictedOccupancy(basePrediction, variance) ==
    MathMax(Double(0), MathMin(Double(100), Sum(basePrediction, variance)))

(***************************************************************************)
(* Math.round(lot.totalSpaces * (1 - predictedOccupancy / 100))            *)
(***************************************************************************)
PredictedAvailable(totalSpaces, predictedOccupancy) ==
    MathRound(Multiplied(Double(totalSpaces),
                         Difference(Double(1), Divided(predictedOccupancy, 100))))

(***************************************************************************)
(* Math.round(predictedOccupancy * 10) / 10: one decimal.  The result is   *)
(* in hundredths; the value itself is the double Percent of it.            *)
(***************************************************************************)
RoundOneDecimal(predictedOccupancy) ==
    10 * MathRound(Multiplied(predictedOccupancy, Double(10)))

(***************************************************************************)
(* The trend of a point (lines 186-191): the current, unrounded value      *)
(* against the value stored in the last point pushed.                      *)
(***************************************************************************)
Trend(predictions, predictedOccupancy) ==
    IF Len(predictions) > 0
    THEN LET lastPrediction == Percent(predictions[Len(predictions)].predictedOccupancy)
         IN  IF Order(predictedOccupancy, Sum(lastPrediction, Double(TrendThreshold))) > 0
             THEN "INCREASING"
             ELSE IF Order(predictedOccupancy,
                           Difference(lastPrediction, Double(TrendThreshold))) < 0
             THEN "DECREASING"
             ELSE "STABLE"
    ELSE "STABLE"

(***************************************************************************)
(* Mutant of Confidence: floored at 0.5.                                   *)
(***************************************************************************)
ConfidenceFloored(i) ==
    MathMax(Divided(Double(1), 2),
            Difference(Percent(BaseConfidence),
                       Multiplied(Double(i), Percent(ConfidenceStep))))

(***************************************************************************)
(* 0.85 - (i * 0.05), in doubles: the literals are the doubles nearest to  *)
(* 0.85 and 0.05, and the product and the difference are rounded.  The     *)
(* confidence of a point is this double, not a number of hundredths.       *)
(***************************************************************************)
Confidence(i) ==
    Difference(Percent(BaseConfidence), Multiplied(Double(i), Percent(ConfidenceStep)))

(***************************************************************************)
(* Mutant of PredictionTime: truncated to the top of the hour.             *)
(***************************************************************************)
PredictionTimeTopOfHour(now, i) == (now + i * 60) - ((now + i * 60) % 60)

(***************************************************************************)
(* new Date(now.getTime() + i * 60 * 60 * 1000)                            *)
(***************************************************************************)
PredictionTime(now, i) == now + i * 60

(***************************************************************************)
(* A time zone is the instant its clocks change at and the minutes they    *)
(* change by; NoChange has no change.  LocalTime is the reading of the     *)
(* clocks at the instant t, in minutes since the local midnight of the     *)
(* first day; Date.getHours and Date.getMinutes read it.  UtcTime is the   *)
(* instant a Date takes for a local time (Date.setMinutes): a local time   *)
(* that the clocks show twice, or skip, is read with the offset before the *)
(* change.                                                                 *)
(***************************************************************************)
NoChange == [at |-> 0, by |-> 0]
LocalTime(t, zone) == IF t >= zone.at THEN t + zone.by ELSE t
UtcTime(local, zone) ==
    IF local < zone.at \/ local - zone.by < zone.at THEN local ELSE local - zone.by
GetHours(t, zone) == (LocalTime(t, zone) \div 60) % 24
GetMinutes(t, zone) == LocalTime(t, zone) % 60

(***************************************************************************)
(* The record pushed at step i (lines 184-199), for the time and the       *)
(* unrounded predictedOccupancy of the step.                               *)
(***************************************************************************)
PredictionPushed(lot, i, predictions, predictionTime, predictedOccupancy) ==
    [timestamp |-> predictionTime,
     predictedOccupancy |-> RoundOneDecimal(predictedOccupancy),
     predictedAvailable |-> PredictedAvailable(lot.totalSpaces, predictedOccupancy),
     confidence |-> Confidence(i),
     trend |-> Trend(predictions, predictedOccupancy)]

(***************************************************************************)
(* One pass of the loop body (lines 168-199): the point pushed at step i,  *)
(* random being Math.random() of that step, in units of 1 / RandomSteps.   *)
(***************************************************************************)
PredictionPoint(lot, now, i, random, predictions, zone) ==
    PredictionPushed(lot, i, predictions, PredictionTime(now, i),
        PredictedOccupancy(BasePrediction(Percent(lot.occupancyRate),
                                          GetHours(PredictionTime(now, i), zone)),
                           Variance(random)))

(***************************************************************************)
(* Mutant of LoopContinues: i < hours.                                     *)
(***************************************************************************)
LoopStopsEarly(i, hours) == i < hours

(***************************************************************************)
(* Whether the loop runs step i: i <= hours.                               *)
(***************************************************************************)
LoopContinues(i, hours) == i <= hours

(***************************************************************************)
(* for (let i = 1; i <= hours; i++) { ... predictions.push(...) }          *)
(***************************************************************************)
RECURSIVE PredictionLoop(_, _, _, _, _, _, _)
PredictionLoop(lot, now, hours, rand, i, predictions, zone) ==
    IF LoopContinues(i, hours)
    THEN PredictionLoop(lot, now, hours, rand, i + 1,
             Append(predictions, PredictionPoint(lot, now, i, rand[i], predictions, zone)),
             zone)
    ELSE predictions

(***************************************************************************)
(* Mutant of PeakIndex: >= in place of >, the last of equal points kept.   *)
(***************************************************************************)
RECURSIVE PeakIndexLast(_, _, _)
PeakIndexLast(predictions, k, max) ==
    IF k > Len(predictions) THEN max
    ELSE PeakIndexLast(predictions, k + 1,
             IF predictions[k].predictedOccupancy >= predictions[max].predictedOccupancy
             THEN k ELSE max)

(***************************************************************************)
(* predictions.reduce((max, p) => p.predictedOccupancy >                   *)
(*     max.predictedOccupancy ? p : max, predictions[0]): the index kept.  *)
(***************************************************************************)
RECURSIVE PeakIndex(_, _, _)
PeakIndex(predictions, k, max) ==
    IF k > Len(predictions) THEN max
    ELSE PeakIndex(predictions, k + 1,
             IF predictions[k].predictedOccupancy > predictions[max].predictedOccupancy
             THEN k ELSE max)

(***************************************************************************)
(* The clock reading of the high-demand message (lines 227-230).           *)
(***************************************************************************)
TimeStr(peakTime, zone) ==
    LET hours == GetHours(peakTime, zone)
        minutes == GetMinutes(peakTime, zone)
    IN  [hour |-> IF hours > 12 THEN hours - 12 ELSE hours,
         minutes |-> minutes,
         suffix |-> IF hours >= 12 THEN "PM" ELSE "AM"]

NoTime == [hour |-> 0, minutes |-> 0, suffix |-> ""]

(***************************************************************************)
(* Mutants of generateRecommendation: the availability test first; the     *)
(* peak compared with >= 85.                                               *)
(***************************************************************************)
generateRecommendationLimitedFirst(predictions, lot, zone) ==
    LET peakPrediction == predictions[PeakIndex(predictions, 1, 1)]
    IN  IF lot.availableSpaces < LimitedSpaces
        THEN [text |-> "Limited spaces available now. Consider alternative lots if possible.",
              time |-> NoTime]
        ELSE IF peakPrediction.predictedOccupancy > HighDemandThreshold
        THEN [text |-> "High demand expected around", time |-> TimeStr(peakPrediction.timestamp, zone)]
        ELSE [text |-> "Good availability expected. No concerns at this time.",
              time |-> NoTime]

generateRecommendationAtLeast(predictions, lot, zone) ==
    LET peakPrediction == predictions[PeakIndex(predictions, 1, 1)]
    IN  IF peakPrediction.predictedOccupancy >= HighDemandThreshold
        THEN [text |-> "High demand expected around", time |-> TimeStr(peakPrediction.timestamp, zone)]
        ELSE IF lot.availableSpaces < LimitedSpaces
        THEN [text |-> "Limited spaces available now. Consider alternative lots if possible.",
              time |-> NoTime]
        ELSE [text |-> "Good availability expected. No concerns at this time.",
              time |-> NoTime]

(***************************************************************************)
(* LotService.generateRecommendation, for a non-empty series.              *)
(***************************************************************************)
generateRecommendation(predictions, lot, zone) ==
    LET peakPrediction == predictions[PeakIndex(predictions, 1, 1)]
    IN  IF peakPrediction.predictedOccupancy > HighDemandThreshold
        THEN [text |-> "High demand expected around", time |-> TimeStr(peakPrediction.timestamp, zone)]
        ELSE IF lot.availableSpaces < LimitedSpaces
        THEN [text |-> "Limited spaces available now. Consider alternative lots if possible.",
              time |-> NoTime]
        ELSE [text |-> "Good availability expected. No concerns at this time.",
              time |-> NoTime]

TimeOfDay(now, zone) ==
    IF GetHours(now, zone) < 12 THEN "Morning"
    ELSE IF GetHours(now, zone) < 17 THEN "Afternoon" ELSE "Evening"
(***************************************************************************)
(* LotService.getPrediction: getLotById is awaited; then, in one piece,    *)
(* the clock is read (now, in the time zone zone) and the points are       *)
(* generated, rand[i] being the Math.random() of step i.  With an empty    *)
(* series generateRecommendation reads a field of undefined and throws.    *)
(* The calls end with one "Point" per point generated.  PredictionOf is    *)
(* what is returned for the lot and its series (lines 202-219),            *)
(* PredictionOfLot what follows the await of getLotById, l being where     *)
(* getLotById stands (lines 160-219).                                      *)
(***************************************************************************)
PredictionOf(lotId, lot, predictions, now, zone, done) ==
    IF predictions = <<>> THEN Threw(done)
    ELSE Returned(Some([lotId |-> lotId,
                        currentOccupancy |-> lot.occupancyRate,
                        currentAvailable |-> lot.availableSpaces,
                        predictions |-> predictions,
                        confidence |-> BaseConfidence,
                        generatedAt |-> now,
                        timeOfDay |-> TimeOfDay(now, zone),
                        recommendation |-> generateRecommendation(predictions, lot, zone)]),
                  done \o [k \in 1..Len(predictions) |-> "Point"])

PredictionOfLot(lotId, hours, l, now, rand, zone) ==
    IF l.awaits THEN Awaits(l.calls)
    ELSE IF l.threw THEN Threw(l.calls)
    ELSE IF l.value = Null THEN Returned(Null, l.calls)
    ELSE PredictionOf(lotId, l.value[1],
                      PredictionLoop(l.value[1], now, hours, rand, 1, <<>>, zone),
                      now, zone, l.calls)

getPrediction(lotId, hours, answers, now, rand, zone) ==
    PredictionOfLot(lotId, hours, getLotById(lotId, answers), now, rand, zone)

(***************************************************************************)
(* The /lots routes.  A handler takes a step per await: one when the       *)
(* request arrives, up to the first store command it awaits, and one each  *)
(* time the command it awaits settles, up to the next one or to the        *)
(* response.  The store may become unreachable, or reachable again, and    *)
(* the other requests may take their steps, in between.  A client sends    *)
(* its single-lot requests one at a time: the response stays until it is   *)
(* delivered, and the next request arrives then.  req keeps the answers    *)
(* the handler's awaits have had.                                          *)
(***************************************************************************)
Ok(data) == [status |-> 200, success |-> TRUE, code |-> "", data |-> Some(data)]
Error(status, code) == [status |-> status, success |-> FALSE, code |-> code, data |-> Null]

(***************************************************************************)
(* Where a handler stands: it has sent its response, or it awaits the last *)
(* of the commands it has sent.                                            *)
(***************************************************************************)
Responds(response, c) == [awaits |-> FALSE, res |-> Some(response), calls |-> c]
Pending(c) == [awaits |-> TRUE, res |-> Null, calls |-> c]

(***************************************************************************)
(* GET /lots.  The handler awaits getAllLots, which never throws, and      *)
(* answers 200 with the lots it returned.                                  *)
(***************************************************************************)
GetLotsResponse(call) == Ok(call.value[1])

(***************************************************************************)
(* One step of a GET /lots request: its call and the flag change, and the  *)
(* call keeps whether a store command of it has been rejected.             *)
(***************************************************************************)
CallStep(c, r, rejected) ==
    /\ lotsCalls' = [lotsCalls EXCEPT ![c] = [r.call EXCEPT !.rejected = rejected]]
    /\ useMockData' = r.useMockData
    /\ UNCHANGED exceptCalls

CallStart(c) ==
    /\ lotsCalls[c].pc = "idle"
    /\ CallStep(c, [call |-> startAllLots(useMockData), useMockData |-> useMockData],
                FALSE)

(***************************************************************************)
(* The Scan settles: rejected when the store is unreachable or the command *)
(* fails; otherwise it returns the stored lots in the given order.         *)
(***************************************************************************)
ScanSettles(c, rejected, order) ==
    /\ lotsCalls[c].pc = "scan"
    /\ CallStep(c, afterScan(lotsCalls[c], useMockData, ~storeUp \/ rejected,
                             ScanLots(order)),
                ~storeUp \/ rejected)

(***************************************************************************)
(* Promise.all settles: rejected when a Query is, the first one when the   *)
(* store is unreachable.  The call waits here only when the Scan returned  *)
(* a lot.                                                                  *)
(***************************************************************************)
QueriesSettle(c, failAt) ==
    /\ lotsCalls[c].pc = "queries"
    /\ failAt \in 0..Len(lotsCalls[c].lots)
    /\ LET at == IF ~storeUp THEN 1 ELSE failAt
       IN  CallStep(c, afterQueries(lotsCalls[c], useMockData, at), at # 0)

(***************************************************************************)
(* The response is sent; the slot takes the next request.                  *)
(***************************************************************************)
CallReturn(c) ==
    /\ lotsCalls[c].pc = "done"
    /\ CallStep(c, [call |-> IdleCall, useMockData |-> useMockData], FALSE)
(***************************************************************************)
(* The handler of GET /lots/:lotId: getLotById is awaited, and LotResponse *)
(* is the response to what it returned or threw.                           *)
(***************************************************************************)
LotResponse(lot) ==
    IF lot.awaits THEN Pending(lot.calls)
    ELSE IF lot.threw THEN Responds(Error(500, "INTERNAL_ERROR"), lot.calls)
    ELSE IF lot.value = Null THEN Responds(Error(404, "LOT_NOT_FOUND"), lot.calls)
    ELSE Responds(Ok(lot.value[1]), lot.calls)

LotHandler(lotId, answers) == LotResponse(getLotById(lotId, answers))

(***************************************************************************)
(* s.spaceNumber?.startsWith(zone)                                         *)
(***************************************************************************)
StartsWith(spaceNumber, zone) ==
    /\ spaceNumber # Null
    /\ Len(zone) <= Len(spaceNumber[1])
    /\ SubSeq(spaceNumber[1], 1, Len(zone)) = zone

(***************************************************************************)
(* if (param): a query parameter that is absent or the empty string is     *)
(* falsy.                                                                  *)
(***************************************************************************)
Truthy(param, empty) == param # Null /\ param[1] # empty

(***************************************************************************)
(* Mutant of FilterSpaces: the zone filter keeps the spaces that have no   *)
(* spaceNumber.                                                            *)
(***************************************************************************)
FilterSpacesKeepsUnnumbered(spaces, status, zone) ==
    LET byStatus == IF Truthy(status, "")
                    THEN SelectSeq(spaces, LAMBDA s : s.status = status[1])
                    ELSE spaces
    IN  IF Truthy(zone, <<>>)
        THEN SelectSeq(byStatus, LAMBDA s :
                 s.spaceNumber = Null \/ StartsWith(s.spaceNumber, zone[1]))
        ELSE byStatus

(***************************************************************************)
(* The filters of GET /lots/:lotId/spaces (lines 142-147); a parameter     *)
(* that is absent is <<>>.                                                 *)
(***************************************************************************)
FilterSpaces(spaces, status, zone) ==
    LET byStatus == IF Truthy(status, "")
                    THEN SelectSeq(spaces, LAMBDA s : s.status = status[1])
                    ELSE spaces
    IN  IF Truthy(zone, <<>>)
        THEN SelectSeq(byStatus, LAMBDA s : StartsWith(s.spaceNumber, zone[1]))
        ELSE byStatus

(***************************************************************************)
(* The handler of GET /lots/:lotId/spaces?status=&zone=: getLotById is     *)
(* awaited, then getSpacesByLotId, which gets the answers that getLotById  *)
(* has not taken (SpacesAfterLot); SpacesOfLot is where the handler stands *)
(* for what the two have come to, SpacesResponse its 200 response with the *)
(* filtered list.                                                          *)
(***************************************************************************)
SpacesResponse(lotId, spaces, done) ==
    Responds(Ok([lotId |-> lotId,
                 spaces |-> spaces,
                 totalCount |-> Len(spaces),
                 availableCount |-> CountStatus(spaces, "available"),
                 occupiedCount |-> CountStatus(spaces, "occupied")]),
             done)

SpacesOfLot(lotId, status, zone, lot, q) ==
    IF lot.awaits THEN Pending(lot.calls)
    ELSE IF lot.threw THEN Responds(Error(500, "INTERNAL_ERROR"), lot.calls)
    ELSE IF lot.value = Null THEN Responds(Error(404, "LOT_NOT_FOUND"), lot.calls)
    ELSE IF q.awaits THEN Pending(lot.calls \o q.calls)
    ELSE IF q.threw THEN Responds(Error(500, "INTERNAL_ERROR"), lot.calls \o q.calls)
    ELSE SpacesResponse(lotId, FilterSpaces(q.value, status, zone), lot.calls \o q.calls)

SpacesAfterLot(lotId, status, zone, lot, answers) ==
    SpacesOfLot(lotId, status, zone, lot,
                getSpacesByLotId(lotId, SubSeq(answers, Len(lot.calls) + 1, Len(answers))))

SpacesHandler(lotId, status, zone, answers) ==
    SpacesAfterLot(lotId, status, zone, getLotById(lotId, answers), answers)

(***************************************************************************)
(* parseInt(req.query.hours) || 3, the parameter being absent (<<>>, which *)
(* parses to NaN) or an integer.                                           *)
(***************************************************************************)
ParseHours(hoursParam) ==
    IF hoursParam = Null \/ hoursParam[1] = 0 THEN DefaultHours ELSE hoursParam[1]

(***************************************************************************)
(* hours < 1 || hours > 12                                                 *)
(***************************************************************************)
HoursInvalid(hours) == hours < MinHours \/ hours > MaxHours

(***************************************************************************)
(* The Math.random() of step i when the draws repeat with the period of    *)
(* pattern.                                                                *)
(***************************************************************************)
Draws(pattern, hours) ==
    [i \in 1..hours |-> pattern[((i - 1) % Len(pattern)) + 1]]

(***************************************************************************)
(* The handler of GET /lots/:lotId/prediction?hours=N: the hours are       *)
(* validated, then getPrediction is awaited; now, pattern and tz are what  *)
(* it reads of the clock and of Math.random() once getLotById has          *)
(* returned.  PredictionResponse is the response to what getPrediction     *)
(* returned or threw.                                                      *)
(***************************************************************************)
PredictionResponse(prediction) ==
    IF prediction.awaits THEN Pending(prediction.calls)
    ELSE IF prediction.threw THEN Responds(Error(500, "INTERNAL_ERROR"), prediction.calls)
    ELSE IF prediction.value = Null
    THEN Responds(Error(404, "LOT_NOT_FOUND"), prediction.calls)
    ELSE Responds(Ok(prediction.value[1]), prediction.calls)

PredictionHandler(lotId, hoursParam, answers, now, pattern, tz) ==
    IF HoursInvalid(ParseHours(hoursParam))
    THEN Responds(Error(400, "VALIDATION_ERROR"), <<>>)
    ELSE PredictionResponse(getPrediction(lotId, ParseHours(hoursParam), answers, now,
                                          Draws(pattern, ParseHours(hoursParam)), tz))

(***************************************************************************)
(* The command a pending request awaits settles: the answer the store      *)
(* gives it.                                                               *)
(***************************************************************************)
Awaited == calls[Len(calls)]

Send(command, lotId, rejected) ==
    IF command = "Get" THEN SendGet(lotId, rejected) ELSE SendQuery(lotId, rejected)

Answers(rejected) == Append(req[1].answers, Send(Awaited, req[1].lotId, rejected))

PendingRequest(route) == req # Null /\ res = Null /\ req[1].route = route

(***************************************************************************)
(* The server's side of a step of a single-lot request: the request, and   *)
(* where its handler stands after the step.                                *)
(***************************************************************************)
HandlerStep(request, handler) ==
    \E h \in {handler} :
        /\ req' = Some(request)
        /\ res' = h.res
        /\ calls' = h.calls
        /\ UNCHANGED <<lotTable, spaceTable, storeUp, useMockData>>
        /\ UNCHANGED exceptServer

(***************************************************************************)
(* GET /lots/:lotId arrives; the command its handler awaits settles.       *)
(***************************************************************************)
GetLot(lotId) ==
    /\ req = Null
    /\ HandlerStep([route |-> "lot", lotId |-> lotId, answers |-> <<>>],
                   LotHandler(lotId, <<>>))

LotSettles(rejected) ==
    /\ PendingRequest("lot")
    /\ HandlerStep([req[1] EXCEPT !.answers = Answers(rejected)],
                   LotHandler(req[1].lotId, Answers(rejected)))

(***************************************************************************)
(* GET /lots/:lotId/spaces arrives; the command its handler awaits         *)
(* settles.                                                                *)
(***************************************************************************)
GetSpaces(lotId, status, zone) ==
    /\ req = Null
    /\ HandlerStep([route |-> "spaces", lotId |-> lotId, status |-> status,
                    zone |-> zone, answers |-> <<>>],
                   SpacesHandler(lotId, status, zone, <<>>))

SpacesSettles(rejected) ==
    /\ PendingRequest("spaces")
    /\ HandlerStep([req[1] EXCEPT !.answers = Answers(rejected)],
                   SpacesHandler(req[1].lotId, req[1].status, req[1].zone,
                                 Answers(rejected)))

(***************************************************************************)
(* GET /lots/:lotId/prediction arrives: the clock and Math.random() have   *)
(* not been read.  The command its handler awaits settles, at the time now *)
(* of a server in the time zone tz, whose Math.random() draws follow       *)
(* pattern; the request keeps the time it read, if it did.                 *)
(***************************************************************************)
NotRead == [now |-> 0, pattern |-> <<0>>, tz |-> [at |-> 0, by |-> 0]]

GetPrediction(lotId, hoursParam) ==
    /\ req = Null
    /\ HandlerStep([route |-> "prediction", lotId |-> lotId, hours |-> hoursParam,
                    answers |-> <<>>, now |-> NotRead.now, tz |-> NotRead.tz],
                   PredictionHandler(lotId, hoursParam, <<>>, NotRead.now,
                                     NotRead.pattern, NotRead.tz))

PredictionSettles(rejected, now, pattern, tz) ==
    /\ PendingRequest("prediction")
    /\ \E h \in {PredictionHandler(req[1].lotId, req[1].hours, Answers(rejected),
                                    now, pattern, tz)} :
           LET read == ~h.awaits /\ h.res[1].status = 200
           IN  HandlerStep([req[1] EXCEPT !.answers = Answers(rejected),
                                          !.now = IF read THEN now ELSE @,
                                          !.tz = IF read THEN tz ELSE @], h)

(***************************************************************************)
(* The response is sent; the server is idle again.                         *)
(***************************************************************************)
Deliver ==
    /\ res # Null
    /\ req' = Null
    /\ res' = Null
    /\ calls' = <<>>
    /\ UNCHANGED <<lotTable, spaceTable, storeUp, useMockData>>
    /\ UNCHANGED exceptServer

(***************************************************************************)
(* The store becomes unreachable, or reachable again.                      *)
(***************************************************************************)
StoreFlip ==
    /\ storeUp' = ~storeUp
    /\ UNCHANGED <<lotTable, spaceTable, useMockData, req, res, calls>>
    /\ UNCHANGED exceptServer

(***************************************************************************)
(* The client's predictions slice (redux/slices/predictionsSlice.ts).  A   *)
(* prediction is kept as its lotId and the time the server generated it;   *)
(* an expiry is the time its ISO string denotes.  The client is followed   *)
(* on the entries of one lot: a reducer reads and writes the entries of a  *)
(* lot under its own id, and loading and error are the same for all lots.  *)
(***************************************************************************)
ClientLots == {"lot-1"}

initialState ==
    [byLotId |-> [id \in ClientLots |-> Null],
     loading |-> FALSE,
     error |-> Null,
     cacheExpiry |-> [id \in ClientLots |-> Null]]

ClientStart(zone) ==
    /\ clock = 0
    /\ clientZone = zone
    /\ predictionsState = initialState
    /\ inflight = [id \in ClientLots |-> 0]
    /\ cached = <<>>
    /\ refreshing = [id \in ClientLots |-> 0]
    /\ batches = <<>>
    /\ served = [id \in ClientLots |-> Null]

ClientInit == ClientStart(NoChange)

(***************************************************************************)
(* const expiry = new Date(); expiry.setMinutes(expiry.getMinutes() + 5);  *)
(* expiry.toISOString(): a Date of now whose local minutes are set 5       *)
(* further, now + 5 minutes unless the clocks change in between.           *)
(***************************************************************************)
Expiry(now, zone) == UtcTime(LocalTime(now, zone) + CacheMinutes, zone)

(***************************************************************************)
(* The reducers of the slice.  Those that store a prediction run at time   *)
(* now, in the client's time zone.                                         *)
(***************************************************************************)
fetchPredictionPending(state) == [state EXCEPT !.loading = TRUE, !.error = Null]

fetchPredictionFulfilled(state, prediction, now, zone) ==
    [state EXCEPT !.loading = FALSE,
                  !.byLotId[prediction.lotId] = Some(prediction),
                  !.cacheExpiry[prediction.lotId] = Some(Expiry(now, zone))]

fetchPredictionRejected(state, message) ==
    [state EXCEPT !.loading = FALSE, !.error = Some(message)]

refreshPredictionFulfilled(state, prediction, now, zone) ==
    [state EXCEPT !.byLotId[prediction.lotId] = Some(prediction),
                  !.cacheExpiry[prediction.lotId] = Some(Expiry(now, zone))]

(***************************************************************************)
(* fetchMultiplePredictions.fulfilled: one expiry, and the predictions of  *)
(* the payload stored in its order, so that of two for one lot the later   *)
(* stays.                                                                  *)
(***************************************************************************)
InPayload(payload, id) == \E k \in DOMAIN payload : payload[k].lotId = id

LastOf(payload, id) ==
    CHOOSE k \in DOMAIN payload :
        /\ payload[k].lotId = id
        /\ \A j \in DOMAIN payload : payload[j].lotId = id => j <= k

fetchMultiplePredictionsFulfilled(state, payload, now, zone) ==
    [state EXCEPT !.loading = FALSE,
                  !.byLotId = [id \in ClientLots |->
                                  IF InPayload(payload, id)
                                  THEN Some(payload[LastOf(payload, id)])
                                  ELSE state.byLotId[id]],
                  !.cacheExpiry = [id \in ClientLots |->
                                      IF InPayload(payload, id)
                                      THEN Some(Expiry(now, zone))
                                      ELSE state.cacheExpiry[id]]]

updatePrediction(state, prediction, now, zone) ==
    refreshPredictionFulfilled(state, prediction, now, zone)

clearPrediction(state, lotId) ==
    [state EXCEPT !.byLotId[lotId] = Null, !.cacheExpiry[lotId] = Null]

clearAllPredictions(state) ==
    [state EXCEPT !.byLotId = [id \in ClientLots |-> Null],
                  !.cacheExpiry = [id \in ClientLots |-> Null]]

(***************************************************************************)
(* cachedExpiry && new Date(cachedExpiry) > new Date()                     *)
(***************************************************************************)
CacheValid(state, lotId, now) ==
    state.cacheExpiry[lotId] # Null /\ state.cacheExpiry[lotId][1] > now

(***************************************************************************)
(* The error a failed request of apiService is rejected with               *)
(* (APIService.formatError, run by the response interceptor) and whose     *)
(* message the thunks store.  An AxiosError has the response, if one came  *)
(* (its status and the message of its body, "" when the body has none),    *)
(* whether the request was made, and its own message.                      *)
(***************************************************************************)
NETWORK_ERROR == "Unable to connect to the server. Please check your internet connection."
GENERIC_ERROR == "Something went wrong. Please try again."

formatError(error) ==
    IF error.response # Null
    THEN IF error.response[1].message # "" THEN error.response[1].message
         ELSE GENERIC_ERROR
    ELSE IF error.request THEN NETWORK_ERROR
    ELSE IF error.message # "" THEN error.message
    ELSE GENERIC_ERROR

(***************************************************************************)
(* The failures of a request: an error status with the body of this        *)
(* server, which has no message, or with a body that has one; no           *)
(* connection; a timeout; an error before the request is made.             *)
(***************************************************************************)
AxiosErrors ==
    { [response |-> Some([status |-> 500, message |-> ""]), request |-> TRUE,
       message |-> "Request failed with status code 500"],
      [response |-> Some([status |-> 404, message |-> "Not Found"]), request |-> TRUE,
       message |-> "Request failed with status code 404"],
      [response |-> Null, request |-> TRUE, message |-> "Network Error"],
      [response |-> Null, request |-> TRUE, message |-> "timeout of 10000ms exceeded"],
      [response |-> Null, request |-> FALSE,
       message |-> "error while setting up the request"] }

(***************************************************************************)
(* The thunks of the slice that await the answer of a request.             *)
(***************************************************************************)
RECURSIVE Requests(_, _)
Requests(count, lots) ==
    IF lots = {} THEN 0
    ELSE LET id == CHOOSE x \in lots : TRUE
         IN  count[id] + Requests(count, lots \ {id})

Unsettled ==
    Requests(inflight, ClientLots) + Requests(refreshing, ClientLots) + Len(batches)

(***************************************************************************)
(* The prediction the server answers with at the time now, or that is      *)
(* pushed to the client then.                                              *)
(***************************************************************************)
PredictionAt(lotId, now) == [lotId |-> lotId, generatedAt |-> now]

(***************************************************************************)
(* dispatch(fetchPrediction(lotId)), up to its return: the pending         *)
(* reducer, then the payload creator up to its first await or its return.  *)
(* With a valid expiry it returns the stored prediction, which the         *)
(* fulfilled reducer gets in a later microtask; otherwise it awaits        *)
(* apiService.getPrediction.                                               *)
(***************************************************************************)
fetchPrediction(lotId) ==
    LET state == fetchPredictionPending(predictionsState)
        hit == CacheValid(state, lotId, clock)
    IN  /\ IF hit THEN Len(cached) < MaxInflight ELSE Unsettled < MaxInflight
        /\ predictionsState' = state
        /\ cached' = IF hit THEN Append(cached, state.byLotId[lotId][1]) ELSE cached
        /\ inflight' = IF hit THEN inflight ELSE [inflight EXCEPT ![lotId] = @ + 1]
        /\ UNCHANGED <<clock, clientZone, refreshing, batches, served>>
        /\ UNCHANGED exceptClient

(***************************************************************************)
(* The fulfilled action of the oldest fetchPrediction that returned the    *)
(* stored prediction is dispatched: its payload is the prediction that was *)
(* stored when the thunk was dispatched.                                   *)
(***************************************************************************)
CachedFulfilled ==
    /\ cached # <<>>
    /\ cached' = Tail(cached)
    /\ predictionsState' = fetchPredictionFulfilled(predictionsState, Head(cached),
                                                    clock, clientZone)
    /\ UNCHANGED <<clock, clientZone, inflight, refreshing, batches, served>>
    /\ UNCHANGED exceptClient

(***************************************************************************)
(* The server's answer arrives: response.data is the payload of fulfilled. *)
(***************************************************************************)
ServerResponds(lotId) ==
    /\ inflight[lotId] > 0
    /\ inflight' = [inflight EXCEPT ![lotId] = @ - 1]
    /\ predictionsState' = fetchPredictionFulfilled(predictionsState,
                           PredictionAt(lotId, clock), clock, clientZone)
    /\ served' = [served EXCEPT ![lotId] = Some(clock)]
    /\ UNCHANGED <<clock, clientZone, cached, refreshing, batches>>
    /\ UNCHANGED exceptClient

(***************************************************************************)
(* The request fails: rejectWithValue(error.message), the error being the  *)
(* one formatError made.                                                   *)
(***************************************************************************)
ServerFails(lotId, error) ==
    /\ inflight[lotId] > 0
    /\ inflight' = [inflight EXCEPT ![lotId] = @ - 1]
    /\ predictionsState' = fetchPredictionRejected(predictionsState, formatError(error))
    /\ UNCHANGED <<clock, clientZone, cached, refreshing, batches, served>>
    /\ UNCHANGED exceptClient

(***************************************************************************)
(* dispatch(refreshPrediction(lotId)): no cache check, and no reducer for  *)
(* its pending or rejected action; the answer is stored by its fulfilled   *)
(* reducer, a failure changes nothing.                                     *)
(***************************************************************************)
refreshPrediction(lotId) ==
    /\ Unsettled < MaxInflight
    /\ refreshing' = [refreshing EXCEPT ![lotId] = @ + 1]
    /\ UNCHANGED <<clock, clientZone, predictionsState, inflight, cached, batches,
                   served>>
    /\ UNCHANGED exceptClient

RefreshResponds(lotId) ==
    /\ refreshing[lotId] > 0
    /\ refreshing' = [refreshing EXCEPT ![lotId] = @ - 1]
    /\ predictionsState' = refreshPredictionFulfilled(predictionsState,
                           PredictionAt(lotId, clock), clock, clientZone)
    /\ served' = [served EXCEPT ![lotId] = Some(clock)]
    /\ UNCHANGED <<clock, clientZone, inflight, cached, batches>>
    /\ UNCHANGED exceptClient

RefreshFails(lotId) ==
    /\ refreshing[lotId] > 0
    /\ refreshing' = [refreshing EXCEPT ![lotId] = @ - 1]
    /\ UNCHANGED <<clock, clientZone, predictionsState, inflight, cached, batches,
                   served>>
    /\ UNCHANGED exceptClient

(***************************************************************************)
(* dispatch(fetchMultiplePredictions(lotIds)): the pending reducer and a   *)
(* request for every lot of the list.  Promise.all gives the answers in    *)
(* the order of the list once every request has been answered, and is      *)
(* rejected as soon as one request fails.                                  *)
(***************************************************************************)
fetchMultiplePredictions(lotIds) ==
    /\ Unsettled < MaxInflight
    /\ predictionsState' = fetchPredictionPending(predictionsState)
    /\ batches' = Append(batches, [k \in DOMAIN lotIds |->
                                      [lotId |-> lotIds[k], answer |-> Null]])
    /\ UNCHANGED <<clock, clientZone, inflight, cached, refreshing, served>>
    /\ UNCHANGED exceptClient

AllAnswered(batch) == \A k \in DOMAIN batch : batch[k].answer # Null

WithoutBatch(b) == [k \in 1..(Len(batches) - 1) |-> batches[IF k < b THEN k ELSE k + 1]]

BatchAnswered(b, k) ==
    /\ b \in DOMAIN batches
    /\ k \in DOMAIN batches[b]
    /\ batches[b][k].answer = Null
    /\ batches' = [batches EXCEPT ![b][k].answer =
                                      Some(PredictionAt(batches[b][k].lotId, clock))]
    /\ UNCHANGED <<clock, clientZone, predictionsState, inflight, cached, refreshing,
                   served>>
    /\ UNCHANGED exceptClient

MultipleFulfilled(b) ==
    /\ b \in DOMAIN batches
    /\ AllAnswered(batches[b])
    /\ batches' = WithoutBatch(b)
    /\ predictionsState' = fetchMultiplePredictionsFulfilled(predictionsState,
                               [k \in DOMAIN batches[b] |-> batches[b][k].answer[1]],
                               clock, clientZone)
    /\ served' = [id \in ClientLots |->
                     IF InPayload(batches[b], id) THEN Some(clock) ELSE served[id]]
    /\ UNCHANGED <<clock, clientZone, inflight, cached, refreshing>>
    /\ UNCHANGED exceptClient

MultipleFails(b, error) ==
    /\ b \in DOMAIN batches
    /\ ~AllAnswered(batches[b])
    /\ batches' = WithoutBatch(b)
    /\ predictionsState' = fetchPredictionRejected(predictionsState, formatError(error))
    /\ UNCHANGED <<clock, clientZone, inflight, cached, refreshing, served>>
    /\ UNCHANGED exceptClient

(***************************************************************************)
(* The plain actions of the slice, dispatched at any time:                 *)
(* updatePrediction (a prediction that did not come by a request of the    *)
(* slice), clearPrediction, clearAllPredictions and clearError.            *)
(***************************************************************************)
UpdatePrediction(lotId) ==
    /\ predictionsState' = updatePrediction(predictionsState, PredictionAt(lotId, clock),
                                            clock, clientZone)
    /\ served' = [served EXCEPT ![lotId] = Some(clock)]
    /\ UNCHANGED <<clock, clientZone, thunks>>
    /\ UNCHANGED exceptClient

ClearPrediction(lotId) ==
    /\ predictionsState' = clearPrediction(predictionsState, lotId)
    /\ UNCHANGED <<clock, clientZone, thunks, served>>
    /\ UNCHANGED exceptClient

ClearAllPredictions ==
    /\ predictionsState' = clearAllPredictions(predictionsState)
    /\ UNCHANGED <<clock, clientZone, thunks, served>>
    /\ UNCHANGED exceptClient

ClearPredictionsError ==
    /\ predictionsState' = [predictionsState EXCEPT !.error = Null]
    /\ UNCHANGED <<clock, clientZone, thunks, served>>
    /\ UNCHANGED exceptClient

(***************************************************************************)
(* A minute passes.                                                        *)
(***************************************************************************)
Tick ==
    /\ clock < MaxClock
    /\ clock' = clock + 1
    /\ UNCHANGED <<clientZone, predictionsState, thunks, served>>
    /\ UNCHANGED exceptClient

(***************************************************************************)
(* The auth service (services/authService.ts) and the /auth routes         *)
(* (routes/auth.ts).  Emails and passwords are sequences of characters; a  *)
(* body field that is missing or empty is <<>>.                            *)
(***************************************************************************)
JwtSecret == "config.jwt.secret"

(***************************************************************************)
(* The characters \s matches in a JavaScript regular expression: space,    *)
(* tab, line feed, carriage return, form feed, and the ones written here   *)
(* by their code points (vertical tab, no-break space, the Unicode space   *)
(* separators, the line and paragraph separators, the byte order mark).    *)
(***************************************************************************)
WhiteSpace ==
    {" ", "\t", "\n", "\r", "\f", "U+000B", "U+00A0", "U+1680",
     "U+2000", "U+2001", "U+2002", "U+2003", "U+2004", "U+2005", "U+2006",
     "U+2007", "U+2008", "U+2009", "U+200A", "U+2028", "U+2029", "U+202F",
     "U+205F", "U+3000", "U+FEFF"}

(***************************************************************************)
(* /^[^\s@]+@[^\s@]+\.[^\s@]+$/.test(email)                               *)
(***************************************************************************)
EmailRegexTest(email) ==
    /\ \A k \in DOMAIN email : email[k] \notin WhiteSpace
    /\ \E i \in DOMAIN email :
           /\ email[i] = "@"
           /\ i > 1
           /\ \A k \in DOMAIN email : email[k] = "@" => k = i
           /\ \E j \in DOMAIN email : email[j] = "." /\ j > i + 1 /\ j < Len(email)

(***************************************************************************)
(* bcrypt: a hash remembers what was hashed; compare is false for the ''   *)
(* that stands for a missing hash.                                         *)
(***************************************************************************)
bcryptHash(password, salt) == Some([password |-> password, salt |-> salt])
bcryptCompare(password, hash) == hash # Null /\ hash[1].password = password

(***************************************************************************)
(* jsonwebtoken: sign, and verify at time now (an expired token, or one    *)
(* signed with another key, throws).                                       *)
(***************************************************************************)
jwtSign(payload, key, expiresIn, now) ==
    [payload |-> payload, key |-> key, exp |-> now + expiresIn]
jwtVerifies(token, key, now) == token.key = key /\ now < token.exp

AccessPayload(userId, email, role) ==
    [userId |-> userId, email |-> Some(email), role |-> Some(role), type |-> Null]
RefreshPayload(userId) ==
    [userId |-> userId, email |-> Null, role |-> Null, type |-> Some("refresh")]

(***************************************************************************)
(* AuthService.generateTokens                                              *)
(***************************************************************************)
generateTokens(userId, email, role, now) ==
    [accessToken |-> jwtSign(AccessPayload(userId, email, role), JwtSecret,
                             AccessExpiresIn, now),
     refreshToken |-> jwtSign(RefreshPayload(userId), JwtSecret, RefreshExpiresIn, now),
     expiresIn |-> ExpiresInSeconds]

(***************************************************************************)
(* AuthService.getUserByEmail on a table: the users the email-index Query  *)
(* may give as Items[0]; none when no user has the email.                  *)
(***************************************************************************)
UsersByEmail(table, email) ==
    {id \in DOMAIN table : table[id] # Null /\ table[id][1].email = email}

AuthResponse(status, code, message, data) ==
    [status |-> status, success |-> status < 400, code |-> code,
     message |-> message, data |-> data]

(***************************************************************************)
(* A stored user.                                                          *)
(***************************************************************************)
User(userId, email, passwordHash) ==
    [userId |-> userId, email |-> email, passwordHash |-> passwordHash,
     role |-> "user", lastLogin |-> Null]

(***************************************************************************)
(* const { passwordHash: _, ...userWithoutPassword } = user                *)
(***************************************************************************)
WithoutPassword(user) ==
    [userId |-> user.userId, email |-> user.email, role |-> user.role,
     lastLogin |-> user.lastLogin]

TokenData(user, tokens) ==
    [userId |-> user.userId, email |-> user.email,
     accessToken |-> tokens.accessToken, refreshToken |-> tokens.refreshToken,
     expiresIn |-> tokens.expiresIn, role |-> user.role]

RegisterIds == 1..MaxRegisters
IdleRegister ==
    [pc |-> "idle", email |-> <<>>, password |-> <<>>, answers |-> <<>>,
     put |-> Null, res |-> Null]

AuthInit ==
    /\ userTable = [id \in RegisterIds |-> Null]
    /\ regs = [p \in RegisterIds |-> IdleRegister]
    /\ authReq = Null
    /\ authRes = Null

(***************************************************************************)
(* What AuthService.login has come to, given the answers its awaits have   *)
(* had: it awaits the last of calls (the Query of getUserByEmail,          *)
(* bcrypt.compare, the import and the Update of updateLastLogin), update   *)
(* being the Update command when it has just sent it; or it has thrown     *)
(* error; or it has returned data.                                         *)
(***************************************************************************)
LoginAwaits(c, update) ==
    [awaits |-> TRUE, error |-> "", data |-> Null, calls |-> c, update |-> update]
LoginThrew(error, c) ==
    [awaits |-> FALSE, error |-> error, data |-> Null, calls |-> c, update |-> Null]
LoginReturned(data, c) ==
    [awaits |-> FALSE, error |-> "", data |-> Some(data), calls |-> c, update |-> Null]

(***************************************************************************)
(* Mutant of login: an unknown email is reported as such.                  *)
(***************************************************************************)
loginUserNotFound(email, password, answers, now) ==
    IF answers = <<>> THEN LoginAwaits(<<"Query">>, Null)
    ELSE IF answers[1].rejected THEN LoginThrew("STORE", <<"Query">>)
    ELSE IF answers[1].data = Null THEN LoginThrew("USER_NOT_FOUND", <<"Query">>)
    ELSE LET user == answers[1].data[1]
         IN  IF Len(answers) = 1 THEN LoginAwaits(<<"Query", "compare">>, Null)
             ELSE IF ~answers[2].data
             THEN LoginThrew("INVALID_CREDENTIALS", <<"Query", "compare">>)
             ELSE IF Len(answers) = 2
             THEN LoginAwaits(<<"Query", "compare", "import">>, Null)
             ELSE IF Len(answers) = 3
             THEN LoginAwaits(<<"Query", "compare", "import", "Update">>,
                              Some([userId |-> user.userId, lastLogin |-> now]))
             ELSE IF answers[4].rejected
             THEN LoginThrew("STORE", <<"Query", "compare", "import", "Update">>)
             ELSE LoginReturned(TokenData(WithoutPassword(user),
                                    generateTokens(user.userId, user.email, user.role, now)),
                                <<"Query", "compare", "import", "Update">>)

(***************************************************************************)
(* AuthService.login, from one await to the next: getUserByEmail (the      *)
(* Query, whose answer is Items[0] or nothing), bcrypt.compare (true or    *)
(* false), and updateLastLogin, which awaits the import of the command's   *)
(* module, reads the clock for the command and awaits the Update; then the *)
(* tokens are signed.  now is the clock when the step is taken.            *)
(***************************************************************************)
login(email, password, answers, now) ==
    IF answers = <<>> THEN LoginAwaits(<<"Query">>, Null)
    ELSE IF answers[1].rejected THEN LoginThrew("STORE", <<"Query">>)
    ELSE IF answers[1].data = Null THEN LoginThrew("INVALID_CREDENTIALS", <<"Query">>)
    ELSE LET user == answers[1].data[1]
         IN  IF Len(answers) = 1 THEN LoginAwaits(<<"Query", "compare">>, Null)
             ELSE IF ~answers[2].data
             THEN LoginThrew("INVALID_CREDENTIALS", <<"Query", "compare">>)
             ELSE IF Len(answers) = 2
             THEN LoginAwaits(<<"Query", "compare", "import">>, Null)
             ELSE IF Len(answers) = 3
             THEN LoginAwaits(<<"Query", "compare", "import", "Update">>,
                              Some([userId |-> user.userId, lastLogin |-> now]))
             ELSE IF answers[4].rejected
             THEN LoginThrew("STORE", <<"Query", "compare", "import", "Update">>)
             ELSE LoginReturned(TokenData(WithoutPassword(user),
                                    generateTokens(user.userId, user.email, user.role, now)),
                                <<"Query", "compare", "import", "Update">>)

(***************************************************************************)
(* The handler of POST /auth/login: the response, if it has one, what it   *)
(* has awaited and the Update command it has just sent.                    *)
(***************************************************************************)
LoginRoute(email, password, answers, now) ==
    IF email = <<>> \/ password = <<>>
    THEN [awaits |-> FALSE,
          res |-> Some(AuthResponse(400, "VALIDATION_ERROR",
                                    "Email and password are required", Null)),
          calls |-> <<>>, update |-> Null]
    ELSE LET r == login(email, password, answers, now)
         IN  [awaits |-> r.awaits,
              res |-> IF r.awaits THEN Null
                      ELSE IF r.error = "" THEN Some(AuthResponse(200, "", "", r.data))
                      ELSE IF r.error = "INVALID_CREDENTIALS"
                      THEN Some(AuthResponse(401, "INVALID_CREDENTIALS",
                                             "Email or password is incorrect", Null))
                      ELSE Some(AuthResponse(500, "INTERNAL_ERROR", "Failed to login", Null)),
              calls |-> r.calls, update |-> r.update]

(***************************************************************************)
(* The answers login awaits.  The Query of the email index (Limit 1) gives *)
(* one of the users with the email, the one numbered pick, or nothing; it  *)
(* and the Update are rejected when the store is unreachable or the one    *)
(* command fails.  bcrypt.compare and the import are not rejected.         *)
(***************************************************************************)
Picks(table, email) ==
    IF UsersByEmail(table, email) = {} THEN {0} ELSE UsersByEmail(table, email)

UserItem(table, email, pick) ==
    IF UsersByEmail(table, email) = {} THEN Null ELSE Some(table[pick][1])

LoginAnswer(awaited, email, password, answers, rejected, pick) ==
    IF awaited = "compare"
    THEN Resolved(bcryptCompare(password, answers[1].data[1].passwordHash))
    ELSE IF awaited = "import" THEN Resolved(Null)
    ELSE IF ~storeUp \/ rejected THEN Rejected
    ELSE IF awaited = "Query" THEN Resolved(UserItem(userTable, email, pick))
    ELSE Resolved(Null)

(***************************************************************************)
(* The User table once the store has carried out an Update command: SET    *)
(* lastLogin on the item of the userId.  No item is ever deleted, so the   *)
(* item is there.                                                          *)
(***************************************************************************)
Updated(table, update) ==
    [table EXCEPT ![update.userId] =
        Some([table[update.userId][1] EXCEPT !.lastLogin = Some(update.lastLogin)])]

(***************************************************************************)
(* POST /auth/login arrives; what its handler awaits settles, at the time  *)
(* now.  The request keeps the answers, what it awaits, the Update command *)
(* it has sent and the time its tokens were signed at.                     *)
(***************************************************************************)
Login(email, password) ==
    /\ authReq = Null
    /\ LET h == LoginRoute(email, password, <<>>, 0)
       IN  /\ authReq' = Some([route |-> "login", email |-> email, password |-> password,
                               answers |-> <<>>, calls |-> h.calls, update |-> Null,
                               now |-> 0])
           /\ authRes' = h.res
    /\ UNCHANGED <<userTable, regs>>
    /\ UNCHANGED exceptAuth

LoginSettles(rejected, pick, now) ==
    /\ authReq # Null /\ authRes = Null /\ authReq[1].route = "login"
    /\ pick \in Picks(userTable, authReq[1].email)
    /\ LET r == authReq[1]
           awaited == r.calls[Len(r.calls)]
           answer == LoginAnswer(awaited, r.email, r.password, r.answers, rejected, pick)
           h == LoginRoute(r.email, r.password, Append(r.answers, answer), now)
       IN  /\ authReq' = Some([r EXCEPT !.answers = Append(r.answers, answer),
                                        !.calls = h.calls,
                                        !.update = IF h.update # Null THEN h.update ELSE @,
                                        !.now = IF ~h.awaits /\ h.res[1].status = 200
                                                THEN now ELSE @])
           /\ authRes' = h.res
           /\ userTable' = IF awaited = "Update" /\ ~answer.rejected
                           THEN Updated(userTable, r.update[1])
                           ELSE userTable
    /\ UNCHANGED regs
    /\ UNCHANGED exceptAuth

(***************************************************************************)
(* What AuthService.register has come to, given the answers its awaits     *)
(* have had: it awaits the last of calls, put being the Put command when   *)
(* it has just sent it; or it has thrown error; or it has returned data.   *)
(***************************************************************************)
RegisterAwaits(c, put) ==
    [awaits |-> TRUE, error |-> "", data |-> Null, calls |-> c, put |-> put]
RegisterThrew(error, c) ==
    [awaits |-> FALSE, error |-> error, data |-> Null, calls |-> c, put |-> Null]
RegisterReturned(data, c) ==
    [awaits |-> FALSE, error |-> "", data |-> Some(data), calls |-> c, put |-> Null]

(***************************************************************************)
(* AuthService.register, from one await to the next: getUserByEmail (the   *)
(* Query, whose answer is Items[0] or nothing), bcrypt.genSalt,            *)
(* bcrypt.hash, and the Put of the new user under the fresh uuid userId,   *)
(* conditional on no item having that userId; then the tokens are signed,  *)
(* at the time now.                                                        *)
(***************************************************************************)
register(email, password, answers, userId, now) ==
    IF answers = <<>> THEN RegisterAwaits(<<"Query">>, Null)
    ELSE IF answers[1].rejected THEN RegisterThrew("STORE", <<"Query">>)
    ELSE IF answers[1].data # Null THEN RegisterThrew("EMAIL_EXISTS", <<"Query">>)
    ELSE IF Len(answers) = 1 THEN RegisterAwaits(<<"Query", "genSalt">>, Null)
    ELSE IF Len(answers) = 2 THEN RegisterAwaits(<<"Query", "genSalt", "hash">>, Null)
    ELSE LET user == User(userId, email, answers[3].data)
         IN  IF Len(answers) = 3
             THEN RegisterAwaits(<<"Query", "genSalt", "hash", "Put">>, Some(user))
             ELSE IF answers[4].rejected
             THEN RegisterThrew("STORE", <<"Query", "genSalt", "hash", "Put">>)
             ELSE RegisterReturned(TokenData(WithoutPassword(user),
                                       generateTokens(userId, email, user.role, now)),
                                   <<"Query", "genSalt", "hash", "Put">>)

(***************************************************************************)
(* The handler of POST /auth/register: the validation of the body, then    *)
(* AuthService.register; the response, if it has one, what it has awaited  *)
(* and the Put command it has just sent.                                   *)
(***************************************************************************)
RegisterInvalid(message) ==
    [awaits |-> FALSE, res |-> Some(AuthResponse(400, "VALIDATION_ERROR", message, Null)),
     calls |-> <<>>, put |-> Null]

RegisterRoute(email, password, answers, userId, now) ==
    IF email = <<>> \/ password = <<>>
    THEN RegisterInvalid("Email and password are required")
    ELSE IF ~EmailRegexTest(email) THEN RegisterInvalid("Invalid email format")
    ELSE IF Len(password) < MinPasswordLength
    THEN RegisterInvalid("Password must be at least 8 characters")
    ELSE LET r == register(email, password, answers, userId, now)
         IN  [awaits |-> r.awaits,
              res |-> IF r.awaits THEN Null
                      ELSE IF r.error = "" THEN Some(AuthResponse(201, "", "", r.data))
                      ELSE IF r.error = "EMAIL_EXISTS"
                      THEN Some(AuthResponse(409, "EMAIL_EXISTS",
                                    "An account with this email already exists", Null))
                      ELSE Some(AuthResponse(500, "INTERNAL_ERROR",
                                             "Failed to register user", Null)),
              calls |-> r.calls, put |-> r.put]

(***************************************************************************)
(* The answers register awaits, for the call numbered p, whose salt and    *)
(* uuid are p.  The Query and the Put are rejected when the store is       *)
(* unreachable or the one command fails, the Put also when an item has the *)
(* userId; bcrypt.genSalt and bcrypt.hash are not rejected.                *)
(***************************************************************************)
RegisterAnswer(awaited, p, email, password, answers, rejected, pick) ==
    IF awaited = "genSalt" THEN Resolved(p)
    ELSE IF awaited = "hash" THEN Resolved(bcryptHash(password, answers[2].data))
    ELSE IF ~storeUp \/ rejected THEN Rejected
    ELSE IF awaited = "Query" THEN Resolved(UserItem(userTable, email, pick))
    ELSE IF userTable[p] # Null THEN Rejected
    ELSE Resolved(Null)

(***************************************************************************)
(* POST /auth/register arrives, as the call numbered p: the handler runs   *)
(* to its response 400 or to its first await, the Query of getUserByEmail. *)
(***************************************************************************)
Register(p, email, password) ==
    /\ regs[p].pc = "idle"
    /\ LET h == RegisterRoute(email, password, <<>>, p, 0)
       IN  regs' = [regs EXCEPT ![p] =
                       [pc |-> IF h.awaits THEN h.calls[Len(h.calls)] ELSE "done",
                        email |-> email, password |-> password, answers |-> <<>>,
                        put |-> Null, res |-> h.res]]
    /\ UNCHANGED <<userTable, authReq, authRes>>
    /\ UNCHANGED exceptAuth

(***************************************************************************)
(* What the call numbered p awaits settles, at the time now: the handler   *)
(* runs to its next await or to its response.  A Put that is not rejected  *)
(* has written its item.                                                   *)
(***************************************************************************)
RegisterSettles(p, rejected, pick, now) ==
    /\ regs[p].pc \notin {"idle", "done"}
    /\ pick \in Picks(userTable, regs[p].email)
    /\ LET r == regs[p]
           answer == RegisterAnswer(r.pc, p, r.email, r.password, r.answers, rejected, pick)
           h == RegisterRoute(r.email, r.password, Append(r.answers, answer), p, now)
       IN  /\ regs' = [regs EXCEPT ![p] =
                          [r EXCEPT !.pc = IF h.awaits THEN h.calls[Len(h.calls)] ELSE "done",
                                    !.answers = Append(r.answers, answer),
                                    !.put = IF h.put # Null THEN h.put ELSE @,
                                    !.res = h.res]]
           /\ userTable' = IF r.pc = "Put" /\ ~answer.rejected
                           THEN [userTable EXCEPT ![p] = r.put]
                           ELSE userTable
    /\ UNCHANGED <<authReq, authRes>>
    /\ UNCHANGED exceptAuth

(***************************************************************************)
(* dynamoDB.send of the GetCommand of getUserById, at the time it settles. *)
(***************************************************************************)
SendUserGet(userId, rejected) ==
    IF ~storeUp \/ rejected THEN Rejected
    ELSE Resolved(IF userId \in DOMAIN userTable THEN userTable[userId] ELSE Null)

(***************************************************************************)
(* AuthService.getUserById: the item without its passwordHash.             *)
(***************************************************************************)
getUserById(userId, answers) ==
    IF answers = <<>> THEN Awaits(<<"Get">>)
    ELSE IF answers[1].rejected THEN Threw(<<"Get">>)
    ELSE IF answers[1].data = Null THEN Returned(Null, <<"Get">>)
    ELSE Returned(Some(WithoutPassword(answers[1].data[1])), <<"Get">>)

(***************************************************************************)
(* Mutant of refreshAccessToken: the type of the token is not looked at.   *)
(***************************************************************************)
refreshAccessTokenAnyType(refreshToken, answers, started, now) ==
    IF ~jwtVerifies(refreshToken, JwtSecret, started) THEN Returned(Null, <<>>)
    ELSE LET u == getUserById(refreshToken.payload.userId, answers)
         IN  IF u.awaits THEN Awaits(u.calls)
             ELSE IF u.threw THEN Returned(Null, u.calls)
             ELSE IF u.value = Null THEN Returned(Null, u.calls)
             ELSE Returned(Some(generateTokens(u.value[1].userId, u.value[1].email,
                                               u.value[1].role, now)), u.calls)

(***************************************************************************)
(* AuthService.refreshAccessToken: the tokens, or null (<<>>); whatever is *)
(* thrown is caught.  started is the clock when the token is verified, now *)
(* the clock when the step is taken.                                       *)
(***************************************************************************)
refreshAccessToken(refreshToken, answers, started, now) ==
    IF ~jwtVerifies(refreshToken, JwtSecret, started) THEN Returned(Null, <<>>)
    ELSE IF refreshToken.payload.type # Some("refresh") THEN Returned(Null, <<>>)
    ELSE LET u == getUserById(refreshToken.payload.userId, answers)
         IN  IF u.awaits THEN Awaits(u.calls)
             ELSE IF u.threw THEN Returned(Null, u.calls)
             ELSE IF u.value = Null THEN Returned(Null, u.calls)
             ELSE Returned(Some(generateTokens(u.value[1].userId, u.value[1].email,
                                               u.value[1].role, now)), u.calls)

(***************************************************************************)
(* The handler of POST /auth/refresh; a body without refreshToken is <<>>. *)
(***************************************************************************)
RefreshRoute(refreshToken, answers, started, now) ==
    IF refreshToken = Null
    THEN Responds(AuthResponse(400, "VALIDATION_ERROR", "Refresh token is required", Null),
                  <<>>)
    ELSE LET tokens == refreshAccessToken(refreshToken[1], answers, started, now)
         IN  IF tokens.awaits THEN Pending(tokens.calls)
             ELSE IF tokens.value = Null
             THEN Responds(AuthResponse(401, "INVALID_TOKEN",
                                        "Refresh token is invalid or expired", Null),
                           tokens.calls)
             ELSE Responds(AuthResponse(200, "", "",
                               Some([accessToken |-> tokens.value[1].accessToken,
                                     expiresIn |-> tokens.value[1].expiresIn])),
                           tokens.calls)

(***************************************************************************)
(* POST /auth/refresh arrives at the time now; the Get its handler awaits  *)
(* settles at the time now.                                                *)
(***************************************************************************)
Refresh(refreshToken, now) ==
    /\ authReq = Null
    /\ LET h == RefreshRoute(refreshToken, <<>>, now, now)
       IN  /\ authReq' = Some([route |-> "refresh", token |-> refreshToken, now |-> now,
                               answers |-> <<>>, calls |-> h.calls])
           /\ authRes' = h.res
    /\ UNCHANGED <<userTable, regs>>
    /\ UNCHANGED exceptAuth

RefreshSettles(rejected, now) ==
    /\ authReq # Null /\ authRes = Null /\ authReq[1].route = "refresh"
    /\ LET r == authReq[1]
           answer == SendUserGet(r.token[1].payload.userId, rejected)
           h == RefreshRoute(r.token, <<answer>>, r.now, now)
       IN  /\ authReq' = Some([r EXCEPT !.answers = <<answer>>, !.calls = h.calls])
           /\ authRes' = h.res
    /\ UNCHANGED <<userTable, regs>>
    /\ UNCHANGED exceptAuth

(***************************************************************************)
(* The response of the login or refresh is sent.                           *)
(***************************************************************************)
AuthDeliver ==
    /\ authRes # Null
    /\ authReq' = Null
    /\ authRes' = Null
    /\ UNCHANGED <<userTable, regs>>
    /\ UNCHANGED exceptAuth

(***************************************************************************)
(* The client's WebSocketService (services/websocketService.ts) and the    *)
(* server's socket handlers (index.ts).  subscribedLots, a Set, is the     *)
(* sequence of its elements in insertion order.  A message emitted on a    *)
(* socket that is not connected waits on that socket and is sent when it   *)
(* connects.                                                               *)
(***************************************************************************)
WsLots == StoredLotIds

Range(seq) == {seq[k] : k \in DOMAIN seq}
SetAdd(seq, x) == IF x \in Range(seq) THEN seq ELSE Append(seq, x)
SetDelete(seq, x) == SelectSeq(seq, LAMBDA y : y # x)

Emit(event, lotId) == [event |-> event, lotId |-> lotId]

(***************************************************************************)
(* this.socket?.connected                                                  *)
(***************************************************************************)
SocketConnected(sock) == sock # Null /\ sock[1].connected

(***************************************************************************)
(* subscribeTo and unsubscribeFrom on the service's state st: the socket,  *)
(* subscribedLots and the messages emitted so far.                         *)
(***************************************************************************)
subscribeTo(st, lotId) ==
    IF ~SocketConnected(st.socket) THEN st
    ELSE [st EXCEPT !.emitted = Append(@, Emit("subscribe", lotId)),
                    !.subscribedLots = SetAdd(@, lotId)]

unsubscribeFrom(st, lotId) ==
    IF ~SocketConnected(st.socket) THEN st
    ELSE [st EXCEPT !.emitted = Append(@, Emit("unsubscribe", lotId)),
                    !.subscribedLots = SetDelete(@, lotId)]

(***************************************************************************)
(* The two loops of subscribeToVisible: over the subscribed lots, from the *)
(* k-th on, and over lotIds, from the k-th on.                             *)
(***************************************************************************)
RECURSIVE UnsubscribeHidden(_, _, _, _)
UnsubscribeHidden(st, subscribed, lotIds, k) ==
    IF k > Len(subscribed) THEN st
    ELSE UnsubscribeHidden(
             IF subscribed[k] \notin Range(lotIds) THEN unsubscribeFrom(st, subscribed[k])
             ELSE st,
             subscribed, lotIds, k + 1)

RECURSIVE SubscribeVisible(_, _, _)
SubscribeVisible(st, lotIds, k) ==
    IF k > Len(lotIds) THEN st
    ELSE SubscribeVisible(
             IF lotIds[k] \notin Range(st.subscribedLots) THEN subscribeTo(st, lotIds[k])
             ELSE st,
             lotIds, k + 1)

(***************************************************************************)
(* Mutant of subscribeToVisible: the lots no longer visible stay           *)
(* subscribed.                                                             *)
(***************************************************************************)
subscribeToVisibleKeepsHidden(st, lotIds) == SubscribeVisible(st, lotIds, 1)

(***************************************************************************)
(* WebSocketService.subscribeToVisible                                     *)
(***************************************************************************)
subscribeToVisible(st, lotIds) ==
    SubscribeVisible(UnsubscribeHidden(st, st.subscribedLots, lotIds, 1), lotIds, 1)

(***************************************************************************)
(* The 'connect' handler's loop: a subscribe for every subscribed lot.     *)
(***************************************************************************)
Resubscribe(subscribed) ==
    [k \in 1..Len(subscribed) |-> Emit("subscribe", subscribed[k])]

ServiceState == [socket |-> socket, subscribedLots |-> subscribedLots, emitted |-> <<>>]
Call(op, arg, emitted) ==
    Some([op |-> op, arg |-> arg, before |-> subscribedLots,
          connected |-> SocketConnected(socket), emitted |-> emitted])

SocketInit ==
    /\ socket = Null
    /\ orphans = <<>>
    /\ subscribedLots = <<>>
    /\ channel = <<>>
    /\ rooms = {}
    /\ lastCall = Null

(***************************************************************************)
(* A socket that connect() replaced: the service holds no reference to it, *)
(* but nothing closed it, so it keeps reconnecting and keeps its handlers. *)
(* channel are the messages emitted on it that its server-side socket has  *)
(* not handled, rooms the rooms that server-side socket has joined.        *)
(***************************************************************************)
Orphan(sock, emitted) == [connected |-> sock.connected, channel |-> emitted, rooms |-> {}]

(***************************************************************************)
(* The number of messages emitted, on any socket, that the server has not  *)
(* handled.                                                                *)
(***************************************************************************)
RECURSIVE PendingOn(_, _)
PendingOn(socks, k) ==
    IF k > Len(socks) THEN 0 ELSE Len(socks[k].channel) + PendingOn(socks, k + 1)

Unhandled == Len(channel) + PendingOn(orphans, 1)

(***************************************************************************)
(* connect(): nothing when the socket is connected; otherwise this.socket  *)
(* is a new socket that is not connected yet.  The socket it replaces is   *)
(* not closed.                                                             *)
(***************************************************************************)
WsConnect ==
    /\ ~SocketConnected(socket)
    /\ socket # Null => Len(orphans) < MaxOrphans
    /\ orphans' = IF socket = Null THEN orphans
                  ELSE Append(orphans, Orphan(socket[1], channel))
    /\ socket' = Some([connected |-> FALSE])
    /\ channel' = <<>>
    /\ rooms' = {}
    /\ lastCall' = Call("connect()", <<>>, <<>>)
    /\ UNCHANGED subscribedLots
    /\ UNCHANGED exceptWs

(***************************************************************************)
(* The 'connect' event of this.socket, on the first connection and on      *)
(* every reconnection: the server has a new socket, in no room; the        *)
(* messages emitted while the socket was not connected are sent, and the   *)
(* handler resubscribes.                                                   *)
(***************************************************************************)
WsConnected ==
    /\ socket # Null
    /\ ~socket[1].connected
    /\ Unhandled + Len(subscribedLots) <= MaxChannel
    /\ socket' = Some([connected |-> TRUE])
    /\ rooms' = {}
    /\ channel' = channel \o Resubscribe(subscribedLots)
    /\ lastCall' = Call("connect", <<>>, Resubscribe(subscribedLots))
    /\ UNCHANGED <<orphans, subscribedLots>>
    /\ UNCHANGED exceptWs

(***************************************************************************)
(* The 'connect' event of a socket that connect() replaced.  Its handler   *)
(* is the same closure: it emits on this.socket, which is another socket,  *)
(* connected or not, or null.  The server-side socket of the one that      *)
(* connected is new and in no room.                                        *)
(***************************************************************************)
ResubscribeOn(sock, subscribed) == IF sock = Null THEN <<>> ELSE Resubscribe(subscribed)

OrphanConnected(k) ==
    /\ ~orphans[k].connected
    /\ Unhandled + Len(subscribedLots) <= MaxChannel
    /\ orphans' = [orphans EXCEPT ![k].connected = TRUE]
    /\ channel' = channel \o ResubscribeOn(socket, subscribedLots)
    /\ lastCall' = Call("connect of a replaced socket", <<k>>,
                        ResubscribeOn(socket, subscribedLots))
    /\ UNCHANGED <<socket, subscribedLots, rooms>>
    /\ UNCHANGED exceptWs

(***************************************************************************)
(* The connection is lost: the messages under way are lost with it and the *)
(* server-side socket leaves its rooms.                                    *)
(***************************************************************************)
WsDropped ==
    /\ SocketConnected(socket)
    /\ socket' = Some([connected |-> FALSE])
    /\ channel' = <<>>
    /\ rooms' = {}
    /\ lastCall' = Call("disconnect", <<>>, <<>>)
    /\ UNCHANGED <<orphans, subscribedLots>>
    /\ UNCHANGED exceptWs

OrphanDropped(k) ==
    /\ orphans[k].connected
    /\ orphans' = [orphans EXCEPT ![k] = [connected |-> FALSE, channel |-> <<>>, rooms |-> {}]]
    /\ lastCall' = Call("disconnect of a replaced socket", <<k>>, <<>>)
    /\ UNCHANGED <<socket, subscribedLots, channel, rooms>>
    /\ UNCHANGED exceptWs

(***************************************************************************)
(* disconnect(): this.socket is closed and forgotten; the sockets that     *)
(* connect() replaced are out of its reach.                                *)
(***************************************************************************)
WsDisconnect ==
    /\ socket # Null
    /\ socket' = Null
    /\ subscribedLots' = <<>>
    /\ channel' = <<>>
    /\ rooms' = {}
    /\ lastCall' = Call("disconnect()", <<>>, <<>>)
    /\ UNCHANGED orphans
    /\ UNCHANGED exceptWs

(***************************************************************************)
(* A call of subscribeTo, unsubscribeFrom or subscribeToVisible.           *)
(***************************************************************************)
WsCall(op, arg, st) ==
    /\ Unhandled + Len(st.emitted) <= MaxChannel
    /\ subscribedLots' = st.subscribedLots
    /\ channel' = channel \o st.emitted
    /\ lastCall' = Call(op, arg, st.emitted)
    /\ UNCHANGED <<socket, orphans, rooms>>
    /\ UNCHANGED exceptWs

WsSubscribeTo(lotId) == WsCall("subscribeTo", <<lotId>>, subscribeTo(ServiceState, lotId))
WsUnsubscribeFrom(lotId) ==
    WsCall("unsubscribeFrom", <<lotId>>, unsubscribeFrom(ServiceState, lotId))
WsSubscribeToVisible(lotIds) ==
    WsCall("subscribeToVisible", lotIds, subscribeToVisible(ServiceState, lotIds))

(***************************************************************************)
(* The server handles the next message of a connected socket, this.socket  *)
(* (k = 0) or one that connect() replaced: socket.join or socket.leave on  *)
(* the server-side socket of that connection.                              *)
(***************************************************************************)
Handled(joined, message) ==
    IF message.event = "subscribe" THEN joined \cup {message.lotId}
    ELSE joined \ {message.lotId}

ServerHandles ==
    \E k \in 0..Len(orphans) :
        IF k = 0
        THEN /\ SocketConnected(socket)
             /\ channel # <<>>
             /\ rooms' = Handled(rooms, Head(channel))
             /\ channel' = Tail(channel)
             /\ UNCHANGED <<socket, orphans, subscribedLots, lastCall>>
             /\ UNCHANGED exceptWs
        ELSE /\ orphans[k].connected
             /\ orphans[k].channel # <<>>
             /\ orphans' = [orphans EXCEPT
                               ![k].rooms = Handled(@, Head(orphans[k].channel)),
                               ![k].channel = Tail(@)]
             /\ UNCHANGED <<socket, subscribedLots, channel, rooms, lastCall>>
             /\ UNCHANGED exceptWs

(***************************************************************************)
(* The client's lots slice (redux/slices/lotsSlice.ts) and the handlers of *)
(* the socket's lot_update and space_update messages.  An occupancyRate    *)
(* the client computes is kept as the exact quotient num / den.            *)
(***************************************************************************)
Ratio(num, den) == [num |-> num, den |-> den]

ClientLot(lotId, totalSpaces, availableSpaces) ==
    [lotId |-> lotId, totalSpaces |-> totalSpaces,
     availableSpaces |-> availableSpaces,
     occupiedSpaces |-> totalSpaces - availableSpaces,
     occupancyRate |-> Ratio((totalSpaces - availableSpaces) * 100, totalSpaces)]

lotsInitialState ==
    [byId |-> [id \in StoredLotIds |-> Null],
     allIds |-> <<>>,
     loading |-> FALSE,
     error |-> Null,
     lastFetch |-> Null]

SliceInit ==
    /\ lotsState = lotsInitialState
    /\ lotsInflight = 0

(***************************************************************************)
(* state.byId[lot.lotId] = lot; allIds.push unless it is included: the     *)
(* body of updateLot, of fetchLotDetails.fulfilled and of the loop of      *)
(* fetchLots.fulfilled.                                                    *)
(***************************************************************************)
updateLot(state, lot) ==
    [state EXCEPT !.byId[lot.lotId] = Some(lot),
                  !.allIds = IF lot.lotId \in Range(@) THEN @ ELSE Append(@, lot.lotId)]

updateLotOccupancy(state, lotId, availableSpaces, occupiedSpaces) ==
    IF state.byId[lotId] = Null THEN state
    ELSE LET lot == state.byId[lotId][1]
         IN  [state EXCEPT !.byId[lotId] =
                 Some([lot EXCEPT !.availableSpaces = availableSpaces,
                                  !.occupiedSpaces = occupiedSpaces,
                                  !.occupancyRate =
                                      Ratio(occupiedSpaces * 100, lot.totalSpaces)])]

RECURSIVE NormalizeLots(_, _, _)
NormalizeLots(state, payload, k) ==
    IF k > Len(payload) THEN state
    ELSE NormalizeLots(updateLot(state, payload[k]), payload, k + 1)

clearError(state) == [state EXCEPT !.error = Null]

fetchLotsPending(state) == [state EXCEPT !.loading = TRUE, !.error = Null]

fetchLotsFulfilled(state, payload, now) ==
    NormalizeLots([state EXCEPT !.loading = FALSE, !.lastFetch = Some(now)], payload, 1)

fetchLotsRejected(state, message) ==
    [state EXCEPT !.loading = FALSE, !.error = Some(message)]

RECURSIVE StoreLots(_, _, _)
StoreLots(state, payload, k) ==
    IF k > Len(payload) THEN state
    ELSE StoreLots([state EXCEPT !.byId[payload[k].lotId] = Some(payload[k])],
                   payload, k + 1)

refreshLotsFulfilled(state, payload, now) ==
    StoreLots([state EXCEPT !.lastFetch = Some(now)], payload, 1)

(***************************************************************************)
(* selectAllLots; undefined is <<>>.                                       *)
(***************************************************************************)
selectAllLots(state) == [k \in DOMAIN state.allIds |-> state.byId[state.allIds[k]]]

(***************************************************************************)
(* WebSocketService.handleSpaceUpdate: what it dispatches for a space of a *)
(* stored lot.                                                             *)
(***************************************************************************)
handleSpaceUpdate(state, space) ==
    IF state.byId[space.lotId] = Null THEN state
    ELSE LET lot == state.byId[space.lotId][1]
             availableSpaces == IF space.status = "available"
                                THEN lot.availableSpaces + 1
                                ELSE lot.availableSpaces - 1
             occupiedSpaces == lot.totalSpaces - availableSpaces
         IN  updateLotOccupancy(state, space.lotId, availableSpaces, occupiedSpaces)

SliceStep(state) ==
    /\ lotsState' = state
    /\ UNCHANGED lotsInflight
    /\ UNCHANGED exceptSlice

LotUpdate(lot) == SliceStep(updateLot(lotsState, lot))

SpaceUpdate(lotId, status) ==
    LET state == handleSpaceUpdate(lotsState, [lotId |-> lotId, status |-> status])
    IN  /\ \A id \in StoredLotIds :
               state.byId[id] # Null =>
                   /\ state.byId[id][1].availableSpaces >= -MaxDrift
                   /\ state.byId[id][1].availableSpaces
                          <= state.byId[id][1].totalSpaces + MaxDrift
        /\ SliceStep(state)

FetchLots ==
    /\ lotsInflight = 0
    /\ lotsInflight' = 1
    /\ lotsState' = fetchLotsPending(lotsState)
    /\ UNCHANGED exceptSlice

FetchLotsFulfilled(payload) ==
    /\ lotsInflight > 0
    /\ lotsInflight' = lotsInflight - 1
    /\ lotsState' = fetchLotsFulfilled(lotsState, payload, clock)
    /\ UNCHANGED exceptSlice

FetchLotsRejected(error) ==
    /\ lotsInflight > 0
    /\ lotsInflight' = lotsInflight - 1
    /\ lotsState' = fetchLotsRejected(lotsState, formatError(error))
    /\ UNCHANGED exceptSlice

ClearError == SliceStep(clearError(lotsState))

FetchLotDetailsFulfilled(lot) == SliceStep(updateLot(lotsState, lot))

RefreshLotsFulfilled(payload) == SliceStep(refreshLotsFulfilled(lotsState, payload, clock))


(***************************************************************************)
(* Inputs.  The Math.random() draws, in units of 1 / RandomSteps: the      *)
(* least one, a half, 0.804 and the greatest one.                          *)
(***************************************************************************)
RandomDraws == {0, 500, 804, RandomSteps - 1}
(***************************************************************************)
(* The clocks a prediction is asked at: 11:00 and 23:30 where the clocks   *)
(* do not change, and 00:30 of a night in which they go back, or forward,  *)
(* one hour at 02:00.                                                      *)
(***************************************************************************)
Clocks == {[now |-> 660, tz |-> NoChange], [now |-> 1410, tz |-> NoChange]}
ChangingClocks ==
    {[now |-> 30, tz |-> [at |-> 120, by |-> -60]],
     [now |-> 30, tz |-> [at |-> 120, by |-> 60]]}

(***************************************************************************)
(* The sequences of Math.random() draws of a request: a draw that repeats, *)
(* 0.75 among them, which lands the product under predictedAvailable's     *)
(* Math.round on halves; and, where the clocks do not change, every        *)
(* periodic sequence of the draws.                                         *)
(***************************************************************************)
SteadyPatterns == {[k \in 1..MaxPeriod |-> v] : v \in RandomDraws \cup {750}}
Patterns == [1..MaxPeriod -> RandomDraws] \cup SteadyPatterns
PredictionInputs ==
    {[at |-> c, pattern |-> p] : c \in Clocks, p \in Patterns}
        \cup {[at |-> c, pattern |-> p] : c \in ChangingClocks, p \in SteadyPatterns}
HoursParams == {Null} \cup {Some(n) : n \in -1..13}
StatusParams == {Null, Some("")} \cup {Some(st) : st \in Statuses}
ZoneParams == {Null, Some(<<>>), Some(<<"A">>)}
StaticCapacities == {0, 150}
QueryFailPoints == 0..Cardinality(StoredLotIds)

EmailA == <<"a", "@", "x", ".", "y">>
EmailB == <<"b", "@", "x", ".", "y">>
EmailInputs ==
    {<<>>, EmailA, EmailB, <<"a", "@", "x">>,
     <<"a", "\t", "@", "x", ".", "y">>, <<"a", "U+00A0", "b", "@", "x", ".", "y">>}
PasswordA == <<"p", "a", "s", "s", "w", "o", "r", "d">>
PasswordB == <<"p", "a", "s", "s", "w", "0", "r", "d">>
PasswordInputs == {<<>>, PasswordA, PasswordB, <<"s", "h", "o", "r", "t">>}
AuthTimes == {0, RefreshExpiresIn}
IssueTime == 0
TokenInputs ==
    LET issued == UNION {
            LET t == generateTokens(id, email, "user", IssueTime)
            IN  {t.accessToken, t.refreshToken} :
            id \in 1..(MaxRegisters + 1), email \in {EmailA}}
    IN  {Null} \cup {Some(t) : t \in issued}
               \cup {Some([t EXCEPT !.key = "another key"]) : t \in issued}

SeqsUpTo(S, n) == UNION {[1..k -> S] : k \in 0..n}

Space(lotId, status, spaceNumber) ==
    [lotId |-> lotId, status |-> status, spaceNumber |-> spaceNumber]

StaticLot(lotId, totalSpaces) == Some([lotId |-> lotId, totalSpaces |-> totalSpaces])

(***************************************************************************)
(* Stores of the aggregation specification: every table of at most         *)
(* MaxSpaces space records over the stored lots.                           *)
(***************************************************************************)
LotTables ==
    {t \in [LotIds -> {Null} \cup {StaticLot(id, c) : id \in StoredLotIds, c \in StaticCapacities}] :
        /\ t["lot-9"] = Null
        /\ \A id \in StoredLotIds : t[id] # Null => t[id][1].lotId = id}

SpaceRecords == {Space(id, st, Null) : id \in StoredLotIds, st \in Statuses}

(***************************************************************************)
(* A table of one large lot: LargeSpaces records of lot-1, the first       *)
(* LargeOccupied of them occupied and the others available.                *)
(***************************************************************************)
LargeTable ==
    [k \in 1..LargeSpaces |->
        Space("lot-1", IF k <= LargeOccupied THEN "occupied" ELSE "available", Null)]

(***************************************************************************)
(* Stores of the route specification: lots of realistic size.  A lot's     *)
(* spaces are a available, o occupied, r reserved and f offline ones,      *)
(* numbered in zones A and B, every fifth one without a number.            *)
(***************************************************************************)
SpacesOf(lotId, a, o, r, f) ==
    [k \in 1..(a + o + r + f) |->
        Space(lotId,
              IF k <= a THEN "available"
              ELSE IF k <= a + o THEN "occupied"
              ELSE IF k <= a + o + r THEN "reserved" ELSE "offline",
              IF k % 5 = 0 THEN Null
              ELSE Some(<<IF k % 2 = 1 THEN "A" ELSE "B", k>>))]

Fixtures ==
    { [lots |-> [id \in LotIds |-> IF id = "lot-9" THEN Null ELSE StaticLot(id, 100)],
       spaces |-> SpacesOf("lot-1", 50, 20, 0, 30) \o SpacesOf("lot-2", 5, 90, 5, 0)],
      [lots |-> [id \in LotIds |-> IF id = "lot-1" THEN StaticLot(id, 150)
                                   ELSE IF id = "lot-2" THEN StaticLot(id, 0) ELSE Null],
       spaces |-> SpacesOf("lot-2", 2, 1, 0, 0) \o SpacesOf("lot-9", 1, 1, 0, 0)],
      [lots |-> [id \in LotIds |-> IF id = "lot-9" THEN Null ELSE StaticLot(id, 100)],
       spaces |-> SpacesOf("lot-1", 0, 4, 0, 0) \o SpacesOf("lot-2", 40, 60, 0, 0)] }

StoreInit ==
    /\ \E f \in Fixtures : lotTable = f.lots /\ spaceTable = f.spaces
    /\ storeUp = TRUE
    /\ useMockData = FALSE
    /\ req = Null
    /\ res = Null
    /\ calls = <<>>

Init ==
    /\ StoreInit
    /\ ClientInit
    /\ AuthInit
    /\ SocketInit
    /\ SliceInit
    /\ CallsInit

(***************************************************************************)
(* The client's time zones: one without a change, and two whose clocks go  *)
(* back, or forward, one hour two minutes after the start.                 *)
(***************************************************************************)
ClientZones == {NoChange, [at |-> 2, by |-> -60], [at |-> 2, by |-> 60]}

InitCache ==
    /\ StoreInit
    /\ \E zone \in ClientZones : ClientStart(zone)
    /\ AuthInit
    /\ SocketInit
    /\ SliceInit
    /\ CallsInit

(***************************************************************************)
(* The socket service and the server's socket handlers read no table: one  *)
(* store is enough for them.                                               *)
(***************************************************************************)
InitSocket ==
    /\ Init
    /\ spaceTable = SpacesOf("lot-1", 50, 20, 0, 30) \o SpacesOf("lot-2", 5, 90, 5, 0)

(***************************************************************************)
(* Stores of the login specification: every User table over the user ids,  *)
(* two users with the same email included.                                 *)
(***************************************************************************)
UserTables ==
    [RegisterIds -> {Null} \cup
        {Some(User(0, email, bcryptHash(PasswordA, 0))) : email \in {EmailA, EmailB}}]

InitUsers ==
    /\ StoreInit
    /\ ClientInit
    /\ \E t \in UserTables :
           userTable = [id \in RegisterIds |->
                           IF t[id] = Null THEN Null
                           ELSE Some([t[id][1] EXCEPT !.userId = id,
                                          !.passwordHash = bcryptHash(PasswordA, id)])]
    /\ regs = [p \in RegisterIds |-> IdleRegister]
    /\ authReq = Null
    /\ authRes = Null
    /\ SocketInit
    /\ SliceInit
    /\ CallsInit

InitAgg ==
    /\ lotTable \in LotTables
    /\ spaceTable \in SeqsUpTo(SpaceRecords, MaxSpaces) \cup {LargeTable}
    /\ storeUp = TRUE
    /\ useMockData = FALSE
    /\ req = Null
    /\ res = Null
    /\ calls = <<>>
    /\ ClientInit
    /\ AuthInit
    /\ SocketInit
    /\ SliceInit
    /\ CallsInit

(***************************************************************************)
(* The requests a client may send while the server is idle, and the        *)
(* answers of the store to the commands their handlers await.              *)
(***************************************************************************)
LotRequest == \E lotId \in LotIds : GetLot(lotId)
LotAnswers == \E rejected \in BOOLEAN : LotSettles(rejected)

SpacesRequest ==
    \E lotId \in LotIds, status \in StatusParams, zone \in ZoneParams :
        GetSpaces(lotId, status, zone)
SpacesAnswers == \E rejected \in BOOLEAN : SpacesSettles(rejected)

PredictionRequest ==
    \E lotId \in LotIds, hoursParam \in HoursParams : GetPrediction(lotId, hoursParam)
PredictionAnswers ==
    \E rejected \in BOOLEAN, in \in PredictionInputs :
        PredictionSettles(rejected, in.at.now, in.pattern, in.at.tz)

(***************************************************************************)
(* The answers to a prediction request at 11:00, the draws all 0.5.        *)
(***************************************************************************)
PlainPredictionAnswers ==
    \E rejected \in BOOLEAN :
        PredictionSettles(rejected, 660, [k \in 1..MaxPeriod |-> 500], NoChange)

(***************************************************************************)
(* The steps of the GET /lots requests.                                    *)
(***************************************************************************)
CallStarts == \E c \in CallIds : CallStart(c)
ScanAnswers ==
    \E c \in CallIds, rejected \in BOOLEAN, order \in ScanOrders :
        ScanSettles(c, rejected, order)
QueriesAnswer == \E c \in CallIds, failAt \in QueryFailPoints : QueriesSettle(c, failAt)
CallReturns == \E c \in CallIds : CallReturn(c)

(***************************************************************************)
(* The server's requests: the single-lot requests, side by side with the   *)
(* GET /lots requests of a client that sends them one at a time.  The      *)
(* GET /lots requests side by side with each other are NextCalls.          *)
(***************************************************************************)
NoLotsInFlight == \A c \in CallIds : lotsCalls[c].pc = "idle"

Next ==
    \/ NoLotsInFlight /\ CallStarts
    \/ ScanAnswers
    \/ QueriesAnswer
    \/ CallReturns
    \/ LotRequest
    \/ LotAnswers
    \/ SpacesRequest
    \/ SpacesAnswers
    \/ PredictionRequest
    \/ PlainPredictionAnswers
    \/ Deliver
    \/ StoreFlip

(***************************************************************************)
(* The aggregation over every small store, by clients that send one        *)
(* request at a time: what a request aggregates does not depend on the     *)
(* requests beside it.                                                     *)
(***************************************************************************)
OneAtATime == req = Null /\ NoLotsInFlight

NextAgg ==
    \/ OneAtATime /\ CallStarts
    \/ OneAtATime /\ LotRequest
    \/ LotAnswers
    \/ ScanAnswers
    \/ QueriesAnswer
    \/ CallReturns
    \/ Deliver

NextPrediction == PredictionRequest \/ PredictionAnswers \/ Deliver \/ StoreFlip

Dispatch == \E lotId \in ClientLots : fetchPrediction(lotId)
Respond == \E lotId \in ClientLots : ServerResponds(lotId)
Fail == \E lotId \in ClientLots, error \in AxiosErrors : ServerFails(lotId, error)
DispatchRefresh == \E lotId \in ClientLots : refreshPrediction(lotId)
RespondRefresh == \E lotId \in ClientLots : RefreshResponds(lotId)
FailRefresh == \E lotId \in ClientLots : RefreshFails(lotId)
DispatchMultiple == \E lotIds \in SeqsUpTo(ClientLots, MaxBatch) : fetchMultiplePredictions(lotIds)
RespondBatch == \E b \in DOMAIN batches : \E k \in DOMAIN batches[b] : BatchAnswered(b, k)
FulfilMultiple == \E b \in DOMAIN batches : MultipleFulfilled(b)
FailMultiple == \E b \in DOMAIN batches, error \in AxiosErrors : MultipleFails(b, error)
DispatchUpdate == \E lotId \in ClientLots : UpdatePrediction(lotId)
DispatchClear == \E lotId \in ClientLots : ClearPrediction(lotId)

NextCache ==
    \/ Dispatch
    \/ CachedFulfilled
    \/ Respond
    \/ Fail
    \/ DispatchRefresh
    \/ RespondRefresh
    \/ FailRefresh
    \/ DispatchMultiple
    \/ RespondBatch
    \/ FulfilMultiple
    \/ FailMultiple
    \/ DispatchUpdate
    \/ DispatchClear
    \/ ClearAllPredictions
    \/ ClearPredictionsError
    \/ Tick

RegisterRequest ==
    \E p \in RegisterIds, email \in EmailInputs, password \in PasswordInputs :
        Register(p, email, password)
RegisterAnswers ==
    \E p \in RegisterIds, rejected \in BOOLEAN, pick \in {0} \cup RegisterIds :
        RegisterSettles(p, rejected, pick, IssueTime)
LoginRequest == \E email \in EmailInputs, password \in PasswordInputs : Login(email, password)
LoginAnswers ==
    \E rejected \in BOOLEAN, pick \in {0} \cup RegisterIds, now \in AuthTimes :
        LoginSettles(rejected, pick, now)
RefreshRequest == \E refreshToken \in TokenInputs, now \in AuthTimes : Refresh(refreshToken, now)
RefreshAnswers == \E rejected \in BOOLEAN, now \in AuthTimes : RefreshSettles(rejected, now)

NextRegister == RegisterRequest \/ RegisterAnswers \/ StoreFlip

NextAuth ==
    \/ LoginRequest
    \/ LoginAnswers
    \/ RefreshRequest
    \/ RefreshAnswers
    \/ AuthDeliver
    \/ StoreFlip

Subscribe == \E lotId \in WsLots : WsSubscribeTo(lotId)
Unsubscribe == \E lotId \in WsLots : WsUnsubscribeFrom(lotId)
SubscribeVisibleLots == \E lotIds \in SeqsUpTo(WsLots, MaxVisible) : WsSubscribeToVisible(lotIds)

ReplacedConnects == \E k \in DOMAIN orphans : OrphanConnected(k)
ReplacedDrops == \E k \in DOMAIN orphans : OrphanDropped(k)

NextSocket ==
    \/ WsConnect
    \/ WsConnected
    \/ ReplacedConnects
    \/ WsDropped
    \/ ReplacedDrops
    \/ WsDisconnect
    \/ Subscribe
    \/ Unsubscribe
    \/ SubscribeVisibleLots
    \/ ServerHandles

PayloadLots ==
    {ClientLot(id, total, available) :
        id \in StoredLotIds, total \in {2}, available \in {0, 2}}
Payloads == SeqsUpTo(PayloadLots, MaxPayload)

LotUpdateMessage == \E lot \in PayloadLots : LotUpdate(lot)
SpaceUpdateMessage == \E lotId \in StoredLotIds, status \in Statuses : SpaceUpdate(lotId, status)
LotsResponse == \E payload \in Payloads : FetchLotsFulfilled(payload)
LotDetailsResponse == \E lot \in PayloadLots : FetchLotDetailsFulfilled(lot)
RefreshResponse == \E payload \in Payloads : RefreshLotsFulfilled(payload)
LotsFailure == \E error \in AxiosErrors : FetchLotsRejected(error)

NextLots ==
    \/ LotUpdateMessage
    \/ SpaceUpdateMessage
    \/ FetchLots
    \/ LotsResponse
    \/ LotsFailure
    \/ LotDetailsResponse
    \/ RefreshResponse
    \/ ClearError

NextCalls == CallStarts \/ ScanAnswers \/ QueriesAnswer \/ CallReturns \/ StoreFlip

Spec == Init /\ [][Next]_vars
SpecAgg == InitAgg /\ [][NextAgg]_vars
SpecPrediction == Init /\ [][NextPrediction]_vars
SpecCache == InitCache /\ [][NextCache]_vars
SpecRegister == Init /\ [][NextRegister]_vars
SpecAuth == InitUsers /\ [][NextAuth]_vars
SpecSocket == InitSocket /\ [][NextSocket]_vars
SpecLots == Init /\ [][NextLots]_vars
SpecCalls == Init /\ [][NextCalls]_vars

(***************************************************************************)
(* What the claims speak of.                                               *)
(***************************************************************************)
Answered == req # Null /\ res # Null
Route == IF req = Null THEN "" ELSE req[1].route
Status == res[1].status
Data == res[1].data[1]

(***************************************************************************)
(* The GET /lots requests that have their answer, and those of them whose  *)
(* lots come from the store: started with the latch unset, no command      *)
(* rejected.                                                               *)
(***************************************************************************)
LotsAnswered(c) == lotsCalls[c].pc = "done"
LotsData(c) == GetLotsResponse(lotsCalls[c]).data[1]
LotsLive(c) ==
    LotsAnswered(c) /\ ~lotsCalls[c].latchAtStart /\ ~lotsCalls[c].rejected

(***************************************************************************)
(* The aggregated lots of the responses: the lot of GET /lots/:lotId, and  *)
(* the lots of GET /lots when they come from the store.                    *)
(***************************************************************************)
LiveLots ==
    (IF Answered /\ Status = 200 /\ Route = "lot" THEN {Data} ELSE {})
    \cup UNION {{LotsData(c)[k] : k \in DOMAIN LotsData(c)} :
                   c \in {d \in CallIds : LotsLive(d)}}

(***************************************************************************)
(* The store has answered the first command of the single-lot request,     *)
(* and every command the request has sent.                                 *)
(***************************************************************************)
GetAnswered == req[1].answers # <<>> /\ ~req[1].answers[1].rejected
StoreAnswers == \A k \in DOMAIN req[1].answers : ~req[1].answers[k].rejected

(***************************************************************************)
(* The store's records of a lot, read off the tables.                      *)
(***************************************************************************)
SpaceIndexes(lotId) == {k \in DOMAIN spaceTable : spaceTable[k].lotId = lotId}
Stored(lotId, st) == Cardinality({k \in SpaceIndexes(lotId) : spaceTable[k].status = st})
StoredSpaces(lotId) == Cardinality(SpaceIndexes(lotId))
StaticCapacity(lotId) == lotTable[lotId][1].totalSpaces

CountSum(lot) == lot.availableSpaces + lot.occupiedSpaces + lot.offlineSpaces

(***************************************************************************)
(* C1, as stated: every aggregated lot has availableSpaces +               *)
(* occupiedSpaces + offlineSpaces = totalSpaces, whatever the statuses of  *)
(* its spaces and also when it has none.                                   *)
(***************************************************************************)
C1_SumEqualsTotal == \A lot \in LiveLots : CountSum(lot) = lot.totalSpaces

(***************************************************************************)
(* C1, amended: for a lot with space records, availableSpaces +            *)
(* occupiedSpaces + offlineSpaces plus the number of its reserved spaces   *)
(* is totalSpaces; for a lot with none the three counts are 0 and          *)
(* totalSpaces is the static capacity.                                     *)
(***************************************************************************)
C1_SumPlusReservedIsTotal ==
    \A lot \in LiveLots :
        IF StoredSpaces(lot.lotId) > 0
        THEN CountSum(lot) + Stored(lot.lotId, "reserved") = lot.totalSpaces
        ELSE CountSum(lot) = 0 /\ lot.totalSpaces = StaticCapacity(lot.lotId)

C1_Witness ==
    \E lot \in LiveLots :
        /\ Stored(lot.lotId, "reserved") = 1
        /\ lot.totalSpaces = 3
        /\ CountSum(lot) = 2

(***************************************************************************)
(* C2: the three counts of an aggregated lot are the numbers of its spaces *)
(* that are available, occupied and offline; their sum is at most the      *)
(* number of its spaces, and equal to it exactly when none is reserved.    *)
(***************************************************************************)
C2_CountsByStatus ==
    \A lot \in LiveLots :
        /\ lot.availableSpaces = Stored(lot.lotId, "available")
        /\ lot.occupiedSpaces = Stored(lot.lotId, "occupied")
        /\ lot.offlineSpaces = Stored(lot.lotId, "offline")
        /\ CountSum(lot) <= StoredSpaces(lot.lotId)
        /\ (CountSum(lot) = StoredSpaces(lot.lotId)) <=> (Stored(lot.lotId, "reserved") = 0)

C2_Witness ==
    \E lot \in LiveLots :
        /\ Route = "lot"
        /\ Stored(lot.lotId, "reserved") = 1
        /\ lot.availableSpaces = 1
        /\ lot.occupiedSpaces = 1
        /\ lot.offlineSpaces = 0

(***************************************************************************)
(* C3: occupancyRate is occupiedSpaces / totalSpaces * 100 rounded to two  *)
(* decimals (the rate in hundredths is 10000 * occupied / total rounded to *)
(* the nearest integer, a half going up) when totalSpaces > 0, and 0 when  *)
(* totalSpaces = 0; it lies in [0, 100].                                   *)
(***************************************************************************)
C3_RateRounded ==
    \A lot \in LiveLots :
        /\ lot.totalSpaces > 0 =>
              lot.occupancyRate =
                  (20000 * lot.occupiedSpaces + lot.totalSpaces) \div (2 * lot.totalSpaces)
        /\ lot.totalSpaces = 0 => lot.occupancyRate = 0
        /\ 0 <= lot.occupancyRate /\ lot.occupancyRate <= 10000

(***************************************************************************)
(* C4: a lot without space records is aggregated to its static capacity,   *)
(* rate 0 and counts 0; a lot with space records to their number, whatever *)
(* its static capacity.                                                    *)
(***************************************************************************)
C4_FallbackCapacity ==
    \A lot \in LiveLots :
        IF StoredSpaces(lot.lotId) = 0
        THEN /\ lot.totalSpaces = StaticCapacity(lot.lotId)
             /\ lot.occupancyRate = 0
             /\ lot.availableSpaces = 0
             /\ lot.occupiedSpaces = 0
             /\ lot.offlineSpaces = 0
        ELSE lot.totalSpaces = StoredSpaces(lot.lotId)

C4_Witness ==
    /\ Answered /\ Status = 200 /\ Route = "lot"
    /\ StoredSpaces(Data.lotId) = 0
    /\ StoredSpaces("lot-2") > 0
    /\ Data.totalSpaces = 150
    /\ Data.occupancyRate = 0

(***************************************************************************)
(* The prediction of a 200 response of GET /lots/:lotId/prediction, and    *)
(* the horizon its request asks for: the hours parameter, 3 when absent.   *)
(***************************************************************************)
PredictionAnswered == Answered /\ Route = "prediction"
Predicted == PredictionAnswered /\ Status = 200
Points == Data.predictions
HoursAsked == IF req[1].hours = Null THEN 3 ELSE req[1].hours[1]
LotExists == lotTable[req[1].lotId] # Null

(***************************************************************************)
(* C5: for an existing lot and a horizon h in 1..12 the prediction has     *)
(* exactly h points, point i being for the request time plus i hours of    *)
(* elapsed time, in increasing time order.                                 *)
(***************************************************************************)
C5_SeriesLength ==
    PredictionAnswered /\ LotExists /\ StoreAnswers /\ HoursAsked \in 1..12 =>
        /\ Status = 200
        /\ Len(Points) = HoursAsked
        /\ \A i \in 1..Len(Points) : Points[i].timestamp = req[1].now + 60 * i
        /\ \A i \in 1..(Len(Points) - 1) : Points[i].timestamp < Points[i + 1].timestamp

C5_Witness ==
    /\ Predicted
    /\ HoursAsked = 12
    /\ Len(Points) = 12
    /\ Points[12].timestamp = 1410 + 720

(***************************************************************************)
(* C6, as stated: a request whose hours parameter is an integer outside    *)
(* [1, 12] is answered 400 VALIDATION_ERROR without getPrediction being    *)
(* invoked.                                                                *)
(***************************************************************************)
C6_OutOfRangeRejected ==
    PredictionAnswered /\ req[1].hours # Null /\ req[1].hours[1] \notin 1..12 =>
        /\ Status = 400
        /\ res[1].code = "VALIDATION_ERROR"
        /\ calls = <<>>

(***************************************************************************)
(* C7: when the store answers the Get, a request for a lot that has no    *)
(* record is answered 404 LOT_NOT_FOUND by GET /lots/:lotId, /spaces and   *)
(* /prediction (valid hours), after the one Get: no space query is sent    *)
(* and no point is generated.                                              *)
(***************************************************************************)
C7_UnknownLot ==
    /\ Answered
    /\ Route \in {"lot", "spaces", "prediction"}
    /\ lotTable[req[1].lotId] = Null
    /\ GetAnswered
    /\ Route = "prediction" => HoursAsked \in 1..12
    =>  /\ Status = 404
        /\ res[1].code = "LOT_NOT_FOUND"
        /\ res[1].data = Null
        /\ calls = <<"Get">>

C7_Witness ==
    /\ PredictionAnswered
    /\ req[1].lotId = "lot-9"
    /\ HoursAsked = 12
    /\ SpaceIndexes("lot-9") # {}
    /\ Status = 404
    /\ calls = <<"Get">>

(***************************************************************************)
(* The totalSpaces of the aggregated lot of the request, off the tables.   *)
(***************************************************************************)
LotTotalSpaces ==
    IF StoredSpaces(req[1].lotId) > 0 THEN StoredSpaces(req[1].lotId)
    ELSE StaticCapacity(req[1].lotId)

(***************************************************************************)
(* C8: every point has predictedOccupancy in [0, 100] and                  *)
(* predictedAvailable in 0..lot.totalSpaces.                               *)
(***************************************************************************)
C8_BoundedOutput ==
    Predicted =>
        \A i \in 1..Len(Points) :
            /\ 0 <= Points[i].predictedOccupancy
            /\ Points[i].predictedOccupancy <= 10000
            /\ Points[i].predictedAvailable \in 0..LotTotalSpaces

C8_Witness ==
    /\ Predicted
    /\ Data.currentOccupancy = 10000
    /\ \E i \in 1..Len(Points) :
          Points[i].predictedOccupancy = 10000 /\ Points[i].predictedAvailable = 0
    /\ \E i \in 1..Len(Points) : Points[i].predictedOccupancy < 10000

(***************************************************************************)
(* Exact arithmetic on doubles, for the statements about them.             *)
(* ExactDifference(x, y) is x - y without rounding, a [sign, m, e] whose m *)
(* may have more than Precision bits.  HundredthsError(x, n) is            *)
(* |100 * x - n| * 2^60, a natural number, for e >= -60;                   *)
(* WithinRounding(x, n) is |x - n / 100| <= 2^-50, which is less than      *)
(* 1e-15.                                                                  *)
(***************************************************************************)
ExactDifference(x, y) ==
    IF Order(x, y) = 0 THEN Zero
    ELSE IF x.sign # y.sign \/ x.m = <<>> \/ y.m = <<>>
    THEN [sign |-> IF x.m = <<>> THEN -y.sign ELSE x.sign,
          m |-> Plus(Aligned(x, y).a, Aligned(x, y).b, 0),
          e |-> Aligned(x, y).e]
    ELSE IF Compare(Aligned(x, y).a, Aligned(x, y).b) > 0
    THEN [sign |-> x.sign,
          m |-> Normal(Minus(Aligned(x, y).a, Aligned(x, y).b, 0)),
          e |-> Aligned(x, y).e]
    ELSE [sign |-> -x.sign,
          m |-> Normal(Minus(Aligned(x, y).b, Aligned(x, y).a, 0)),
          e |-> Aligned(x, y).e]

Distance(a, b) ==
    IF Compare(a, b) >= 0 THEN Normal(Minus(a, b, 0)) ELSE Normal(Minus(b, a, 0))

HundredthsError(x, n) ==
    IF x.sign < 0 /\ x.m # <<>>
    THEN Plus(Times(ShiftLeft(x.m, x.e + 60), 100, 0), ShiftLeft(Natural(n), 60), 0)
    ELSE Distance(Times(ShiftLeft(x.m, x.e + 60), 100, 0), ShiftLeft(Natural(n), 60))

WithinRounding(x, n) == Compare(HundredthsError(x, n), Natural(100 * 1024)) <= 0

(***************************************************************************)
(* C9, as stated: point i has confidence 0.85 - 0.05 * i, each point's     *)
(* confidence being greater than the next one's by exactly 0.05.           *)
(***************************************************************************)
C9_ConfidenceDecreasing ==
    Predicted =>
        /\ \A i \in 1..Len(Points) :
              HundredthsError(Points[i].confidence, 85 - 5 * i) = <<>>
        /\ \A i \in 1..(Len(Points) - 1) :
              /\ Order(Points[i].confidence, Points[i + 1].confidence) > 0
              /\ HundredthsError(ExactDifference(Points[i].confidence,
                                                 Points[i + 1].confidence), 5) = <<>>

(***************************************************************************)
(* C9, amended: point i has confidence 0.85 - 0.05 * i up to the rounding  *)
(* of the doubles (within 2^-50, less than 1e-15), each point's confidence *)
(* is strictly greater than the next one's, and the difference is 0.05 up  *)
(* to the same rounding.                                                   *)
(***************************************************************************)
C9_ConfidenceDecreasingRounded ==
    Predicted =>
        /\ \A i \in 1..Len(Points) :
              WithinRounding(Points[i].confidence, 85 - 5 * i)
        /\ \A i \in 1..(Len(Points) - 1) :
              /\ Order(Points[i].confidence, Points[i + 1].confidence) > 0
              /\ WithinRounding(ExactDifference(Points[i].confidence,
                                                Points[i + 1].confidence), 5)

(***************************************************************************)
(* Twelve points; the first one's confidence is below 0.8 and the          *)
(* difference to the second one's is below 0.05.                           *)
(***************************************************************************)
C9_Witness ==
    /\ Predicted
    /\ Len(Points) = 12
    /\ Order(Points[1].confidence, Percent(80)) < 0
    /\ Order(Points[2].confidence, Percent(75)) = 0
    /\ Order(Difference(Points[1].confidence, Points[2].confidence), Percent(5)) < 0
    /\ Order(Points[12].confidence, Percent(25)) < 0

(***************************************************************************)
(* C10, as stated: the first point's trend is STABLE, and a later point's  *)
(* trend is INCREASING iff its returned predictedOccupancy exceeds the     *)
(* previous point's by more than 3, DECREASING iff it is below it by more  *)
(* than 3, and STABLE otherwise.                                           *)
(***************************************************************************)
C10_TrendOfReturnedValues ==
    Predicted =>
        /\ Points[1].trend = "STABLE"
        /\ \A i \in 2..Len(Points) :
              LET delta == Points[i].predictedOccupancy - Points[i - 1].predictedOccupancy
              IN  /\ (Points[i].trend = "INCREASING") <=> (delta > 300)
                  /\ (Points[i].trend = "DECREASING") <=> (delta < -300)
                  /\ (Points[i].trend = "STABLE") <=> (delta >= -300 /\ delta <= 300)

(***************************************************************************)
(* The recommendation of the prediction, the peak of its series and the    *)
(* earliest point that reaches it.                                         *)
(***************************************************************************)
Recommendation == Data.recommendation
HighDemand == Predicted /\ Recommendation.text = "High demand expected around"
PeakValue ==
    CHOOSE v \in {Points[i].predictedOccupancy : i \in 1..Len(Points)} :
        \A i \in 1..Len(Points) : Points[i].predictedOccupancy <= v
FirstPeak ==
    CHOOSE i \in 1..Len(Points) :
        /\ Points[i].predictedOccupancy = PeakValue
        /\ \A j \in 1..(i - 1) : Points[j].predictedOccupancy < PeakValue
PeakHour == GetHours(Points[FirstPeak].timestamp, req[1].tz)

(***************************************************************************)
(* C11: the recommendation is the high-demand message when the series'     *)
(* peak is above 85, also for a lot with fewer than 10 available spaces;   *)
(* otherwise the limited-spaces message when the lot has fewer than 10     *)
(* available spaces; otherwise the good-availability message.              *)
(***************************************************************************)
C11_RecommendationPriority ==
    Predicted =>
        Recommendation.text =
            IF PeakValue > 8500 THEN "High demand expected around"
            ELSE IF Stored(req[1].lotId, "available") < 10
            THEN "Limited spaces available now. Consider alternative lots if possible."
            ELSE "Good availability expected. No concerns at this time."

C11_Witness ==
    /\ HighDemand
    /\ PeakValue > 8500
    /\ Stored(req[1].lotId, "available") = 5

(***************************************************************************)
(* C12: the time named in the high-demand message is that of the earliest  *)
(* point with the maximal predictedOccupancy.                              *)
(***************************************************************************)
C12_FirstPeakWins ==
    HighDemand =>
        /\ Recommendation.time.hour % 12 = PeakHour % 12
        /\ Recommendation.time.suffix = (IF PeakHour >= 12 THEN "PM" ELSE "AM")
        /\ Recommendation.time.minutes = GetMinutes(Points[FirstPeak].timestamp, req[1].tz)

C12_Witness ==
    /\ HighDemand
    /\ FirstPeak = 2
    /\ \E j \in 3..Len(Points) : Points[j].predictedOccupancy = PeakValue

(***************************************************************************)
(* C13, as stated: the time of the high-demand message is a 12-hour clock  *)
(* reading: an hour in 1..12, 12 for 0 and 12 o'clock, AM for the hours    *)
(* 0-11 and PM for 12-23, minutes in 0..59.                                *)
(***************************************************************************)
C13_TwelveHourClock ==
    HighDemand =>
        /\ Recommendation.time.hour \in 1..12
        /\ PeakHour \in {0, 12} => Recommendation.time.hour = 12
        /\ Recommendation.time.hour % 12 = PeakHour % 12
        /\ Recommendation.time.suffix = (IF PeakHour < 12 THEN "AM" ELSE "PM")
        /\ Recommendation.time.minutes \in 0..59

(***************************************************************************)
(* C14, as stated: every point's timestamp lies on an hour boundary.       *)
(***************************************************************************)
C14_OnTheHour ==
    Predicted => \A i \in 1..Len(Points) : Points[i].timestamp % 60 = 0

(***************************************************************************)
(* C14, amended: every point's timestamp keeps the minutes of the request  *)
(* time, so it lies on an hour boundary exactly when the request is made   *)
(* on one.                                                                 *)
(***************************************************************************)
C14_KeepsRequestMinutes ==
    Predicted =>
        \A i \in 1..Len(Points) :
            /\ Points[i].timestamp % 60 = req[1].now % 60
            /\ (Points[i].timestamp % 60 = 0) <=> (req[1].now % 60 = 0)

C14_Witness ==
    /\ Predicted
    /\ req[1].now % 60 = 30
    /\ Len(Points) = 12
    /\ \A i \in 1..12 : Points[i].timestamp % 60 = 30

(***************************************************************************)
(* The base the claim gives for a rate r and a local hour H, and the       *)
(* returned values of a base with a perturbation v: clamped to [0, 100],   *)
(* rounded to one decimal.  A value halfway between two numbers of one     *)
(* decimal has both as its roundings (the doubles of the program reach     *)
(* either, as 25.55 is no double): ClaimedLeast is the lower one,          *)
(* ClaimedReturn the upper one.                                            *)
(***************************************************************************)
ClaimedBase(r, H) ==
    CASE H \in 9..11 -> IF r + 1500 < 9500 THEN r + 1500 ELSE 9500
      [] H \in 14..16 -> IF r + 2000 < 9500 THEN r + 2000 ELSE 9500
      [] H \in 17..19 -> IF r - 1500 > 2000 THEN r - 1500 ELSE 2000
      [] OTHER -> r

ClaimedClamp(x) == IF x < 0 THEN 0 ELSE IF x > 10000 THEN 10000 ELSE x

ClaimedReturn(base, v) == ((ClaimedClamp(base + v) + 5) \div 10) * 10

ClaimedLeast(base, v) == ((ClaimedClamp(base + v) + 4) \div 10) * 10

(***************************************************************************)
(* C15: each point's predictedOccupancy is the biased base of its local    *)
(* hour plus a perturbation in [-5, +5], clamped to [0, 100] and rounded   *)
(* to one decimal: a multiple of 0.1 between the returned values of the    *)
(* two extreme perturbations.                                              *)
(***************************************************************************)
C15_BiasAndVariance ==
    Predicted =>
        \A i \in 1..Len(Points) :
            LET H == GetHours(Points[i].timestamp, req[1].tz)
                base == ClaimedBase(Data.currentOccupancy, H)
            IN  /\ Points[i].predictedOccupancy % 10 = 0
                /\ ClaimedLeast(base, -500) <= Points[i].predictedOccupancy
                /\ Points[i].predictedOccupancy <= ClaimedReturn(base, 500)

C15_Witness ==
    /\ Predicted
    /\ Data.currentOccupancy = 6000
    /\ Len(Points) = 12
    /\ \E i \in 1..12 : GetHours(Points[i].timestamp, req[1].tz) = 14
                         /\ Points[i].predictedOccupancy = 8000
    /\ \E i \in 1..12 : GetHours(Points[i].timestamp, req[1].tz) = 17
                         /\ Points[i].predictedOccupancy = 4500
    /\ \E i \in 1..12 : GetHours(Points[i].timestamp, req[1].tz) = 20
                         /\ Points[i].predictedOccupancy = 6000

(***************************************************************************)
(* C19: for a lot with occupancyRate <= 60 and at least 10 available       *)
(* spaces no point exceeds 85 and the recommendation is the                *)
(* good-availability message.                                              *)
(***************************************************************************)
C19_GoodAvailability ==
    Predicted /\ Data.currentOccupancy <= 6000 /\ Data.currentAvailable >= 10 =>
        /\ \A i \in 1..Len(Points) : Points[i].predictedOccupancy <= 8500
        /\ Recommendation.text = "Good availability expected. No concerns at this time."

C19_Witness ==
    /\ Predicted
    /\ Data.currentOccupancy = 6000
    /\ Data.currentAvailable = 40
    /\ PeakValue = 8500
    /\ Recommendation.text = "Good availability expected. No concerns at this time."

(***************************************************************************)
(* GET /lots: the request that starts in a step, the one whose store       *)
(* access fails in a step, and the number of stored lots.                  *)
(***************************************************************************)
LotsStarts(c) == lotsCalls[c].pc = "idle" /\ lotsCalls'[c].pc # "idle"
StoreFails(c) == ~lotsCalls[c].rejected /\ lotsCalls'[c].rejected
NumLots == Cardinality({id \in LotIds : lotTable[id] # Null})

(***************************************************************************)
(* C16: useMockData is a one-way latch.  It starts false; no step takes it *)
(* from true to false; the step that sets it is a getAllLots call whose    *)
(* store access fails, and every such call sets it; a getAllLots call      *)
(* started while it is true returns the fixed mock list and sends no store *)
(* command.                                                                *)
(***************************************************************************)
C16_OneWayLatch ==
    /\ useMockData = FALSE
    /\ [][/\ useMockData => useMockData'
          /\ (~useMockData /\ useMockData') => \E c \in CallIds : StoreFails(c)
          /\ \A c \in CallIds :
                 /\ StoreFails(c) => useMockData'
                 /\ (useMockData /\ LotsStarts(c)) =>
                        /\ lotsCalls'[c].pc = "done"
                        /\ lotsCalls'[c].value = Some(MOCK_LOTS)
                        /\ lotsCalls'[c].sent = <<>>]_vars

(***************************************************************************)
(* A request that started with the latch set has the mock lots without a   *)
(* store command while the store is reachable, next to a request that was  *)
(* awaiting the store when the latch was set and has the store's lots.     *)
(***************************************************************************)
C16_Witness ==
    \E c, d \in CallIds :
        /\ LotsAnswered(c) /\ lotsCalls[c].latchAtStart
        /\ lotsCalls[c].sent = <<>>
        /\ LotsData(c) = MOCK_LOTS
        /\ storeUp
        /\ useMockData
        /\ LotsLive(d) /\ lotsCalls[d].latchAtReturn

(***************************************************************************)
(* C17: GET /lots always answers 200 success.  When the store is           *)
(* unreachable, or the Scan or one of the Queries of the request is        *)
(* rejected, the data is the complete mock list and the latch is set; a    *)
(* request that starts once the latch is set has the complete mock list;   *)
(* otherwise every entry is a stored lot with its live counts (never a     *)
(* mix).                                                                   *)
(***************************************************************************)
C17_LotsNeverFail ==
    \A c \in CallIds :
        LotsAnswered(c) =>
            /\ GetLotsResponse(lotsCalls[c]).status = 200
            /\ GetLotsResponse(lotsCalls[c]).success
            /\ lotsCalls[c].rejected => LotsData(c) = MOCK_LOTS /\ useMockData
            /\ lotsCalls[c].latchAtStart => LotsData(c) = MOCK_LOTS /\ useMockData
            /\ LotsLive(c) =>
                   /\ Len(LotsData(c)) = NumLots
                   /\ \A k \in DOMAIN LotsData(c) :
                          LET lot == LotsData(c)[k]
                          IN  /\ lotTable[lot.lotId] # Null
                              /\ lot.availableSpaces = Stored(lot.lotId, "available")
                              /\ lot.occupiedSpaces = Stored(lot.lotId, "occupied")
                              /\ lot.offlineSpaces = Stored(lot.lotId, "offline")

(***************************************************************************)
(* The Query of the second of two scanned lots was rejected while the      *)
(* store was reachable, and the request has the mock list; the request     *)
(* next to it started afterwards and has it too.                           *)
(***************************************************************************)
C17_Witness ==
    \E c, d \in CallIds :
        /\ LotsAnswered(c) /\ lotsCalls[c].rejected
        /\ storeUp
        /\ Len(lotsCalls[c].lots) = 2
        /\ StoredSpaces(lotsCalls[c].lots[1].lotId) > 0
        /\ lotsCalls[c].sent = <<"Scan", "Query", "Query">>
        /\ LotsData(c) = MOCK_LOTS
        /\ LotsAnswered(d) /\ lotsCalls[d].latchAtStart
        /\ LotsData(d) = MOCK_LOTS

(***************************************************************************)
(* getLotById has returned the lot l, with the counts and the rate of the  *)
(* entry lot of getAllLots.                                                *)
(***************************************************************************)
SameAggregate(lot, l) ==
    /\ ~l.awaits
    /\ ~l.threw
    /\ l.value # Null
    /\ l.value[1].totalSpaces = lot.totalSpaces
    /\ l.value[1].availableSpaces = lot.availableSpaces
    /\ l.value[1].occupiedSpaces = lot.occupiedSpaces
    /\ l.value[1].offlineSpaces = lot.offlineSpaces
    /\ l.value[1].occupancyRate = lot.occupancyRate

(***************************************************************************)
(* C20: while the store is reachable and the latch is unset, every entry   *)
(* of the GET /lots answer has the totalSpaces, availableSpaces,           *)
(* occupiedSpaces, offlineSpaces and occupancyRate that getLotById gives   *)
(* for the same lot on the same store.                                     *)
(***************************************************************************)
C20_SameAggregation ==
    \A c \in CallIds :
        (LotsLive(c) /\ storeUp) =>
            \A k \in DOMAIN LotsData(c) :
                SameAggregate(LotsData(c)[k],
                              getLotById(LotsData(c)[k].lotId,
                                         <<SendGet(LotsData(c)[k].lotId, FALSE),
                                           SendQuery(LotsData(c)[k].lotId, FALSE)>>))

C20_Witness ==
    \E c \in CallIds :
        /\ LotsLive(c)
        /\ storeUp
        /\ ~useMockData
        /\ Len(LotsData(c)) = 2
        /\ Stored(LotsData(c)[1].lotId, "reserved") = 1
        /\ LotsData(c)[1].totalSpaces = 3
        /\ LotsData(c)[1].occupancyRate = 3333
        /\ StaticCapacity(LotsData(c)[1].lotId) = 150
        /\ LotsData(c)[2].totalSpaces = 150
        /\ LotsData(c)[2].occupancyRate = 0

(***************************************************************************)
(* C18: a fetchPrediction dispatched more than 5 minutes after a           *)
(* prediction for the lot last came to the client from the server is not   *)
(* answered from the stored prediction: it sends a request.                *)
(***************************************************************************)
ReturnsStored(lotId) ==
    Len(cached') = Len(cached) + 1 /\ cached'[Len(cached')].lotId = lotId
SendsRequest(lotId) == inflight'[lotId] = inflight[lotId] + 1
ObtainedLongAgo(lotId) ==
    served[lotId] # Null /\ clock - served[lotId][1] > CacheMinutes

C18_ExpiresAfterFive ==
    [][\A lotId \in ClientLots :
           ((ReturnsStored(lotId) \/ SendsRequest(lotId)) /\ ObtainedLongAgo(lotId))
               => SendsRequest(lotId)]_vars

(***************************************************************************)
(* C21: a 200 answer of GET /lots/:lotId/spaces lists, in table order,     *)
(* exactly the lot's spaces whose status is the status parameter (when one *)
(* is given) and whose spaceNumber exists and starts with the zone         *)
(* parameter (when one is given); totalCount, availableCount and           *)
(* occupiedCount count that list, so availableCount + occupiedCount <=     *)
(* totalCount.  A parameter that is empty counts as not given.             *)
(***************************************************************************)
SpacesAnswered == Answered /\ Route = "spaces" /\ Status = 200
StatusGiven == req[1].status # Null /\ req[1].status # Some("")
ZoneGiven == req[1].zone # Null /\ req[1].zone # Some(<<>>)
Selected(k) ==
    /\ spaceTable[k].lotId = req[1].lotId
    /\ StatusGiven => spaceTable[k].status = req[1].status[1]
    /\ ZoneGiven =>
           /\ spaceTable[k].spaceNumber # Null
           /\ Len(spaceTable[k].spaceNumber[1]) >= Len(req[1].zone[1])
           /\ \A j \in 1..Len(req[1].zone[1]) :
                  spaceTable[k].spaceNumber[1][j] = req[1].zone[1][j]
SelectedIndexes == {k \in DOMAIN spaceTable : Selected(k)}
SelectedRank(k) == Cardinality({j \in SelectedIndexes : j <= k})

C21_FilteredSpaces ==
    SpacesAnswered =>
        /\ Len(Data.spaces) = Cardinality(SelectedIndexes)
        /\ \A k \in SelectedIndexes : Data.spaces[SelectedRank(k)] = spaceTable[k]
        /\ Data.totalCount = Len(Data.spaces)
        /\ Data.availableCount =
               Cardinality({i \in DOMAIN Data.spaces : Data.spaces[i].status = "available"})
        /\ Data.occupiedCount =
               Cardinality({i \in DOMAIN Data.spaces : Data.spaces[i].status = "occupied"})
        /\ Data.availableCount + Data.occupiedCount <= Data.totalCount

C21_Witness ==
    /\ SpacesAnswered
    /\ req[1].lotId = "lot-1"
    /\ req[1].status = Some("available")
    /\ req[1].zone = Some(<<"A">>)
    /\ Stored("lot-1", "available") = 50
    /\ Data.totalCount = 20
    /\ Data.availableCount = 20
    /\ Data.occupiedCount = 0

(***************************************************************************)
(* C22: whatever the interleaving of register calls, the User table never  *)
(* holds two users with the same email and at most one call for an email   *)
(* is answered 201.                                                        *)
(***************************************************************************)
Registered(p) == regs[p].pc = "done" /\ regs[p].res[1].status = 201

C22_EmailUnique ==
    /\ \A id1, id2 \in DOMAIN userTable :
           (/\ userTable[id1] # Null
            /\ userTable[id2] # Null
            /\ userTable[id1][1].email = userTable[id2][1].email) => id1 = id2
    /\ \A p, q \in RegisterIds :
           (Registered(p) /\ Registered(q) /\ regs[p].email = regs[q].email) => p = q

(***************************************************************************)
(* C27: POST /auth/refresh answers 200 with new tokens only for a token    *)
(* signed with the server's secret, not expired, of type 'refresh', whose  *)
(* userId is in the User table; for an access token, a token signed with   *)
(* another key or a token of a user that is not in the table it answers    *)
(* 401 INVALID_TOKEN without tokens.                                       *)
(***************************************************************************)
RefreshAnswered ==
    authReq # Null /\ authRes # Null /\ authReq[1].route = "refresh"
        /\ authReq[1].token # Null
RefreshToken == authReq[1].token[1]
UserStored(userId) == userId \in DOMAIN userTable /\ userTable[userId] # Null

C27_RefreshOnlyValid ==
    RefreshAnswered =>
        /\ authRes[1].status \in {200, 401}
        /\ authRes[1].status = 200 =>
               /\ RefreshToken.key = JwtSecret
               /\ authReq[1].now < RefreshToken.exp
               /\ RefreshToken.payload.type = Some("refresh")
               /\ UserStored(RefreshToken.payload.userId)
               /\ authRes[1].data[1].accessToken.payload.userId = RefreshToken.payload.userId
        /\ (\/ RefreshToken.payload.type = Null
            \/ RefreshToken.key # JwtSecret
            \/ ~UserStored(RefreshToken.payload.userId)) =>
               /\ authRes[1].status = 401
               /\ authRes[1].code = "INVALID_TOKEN"
               /\ authRes[1].data = Null

C27_Witness ==
    /\ RefreshAnswered
    /\ authRes[1].status = 200
    /\ RefreshToken.payload.type = Some("refresh")
    /\ UserStored(RefreshToken.payload.userId)
    /\ \E id \in DOMAIN userTable : userTable[id] = Null

(***************************************************************************)
(* C28: a login with a wrong password gets the answer it would get from a  *)
(* store in which no user has the email: 401 INVALID_CREDENTIALS with the  *)
(* same message when the store answers the Query; it gets no token, and no *)
(* step of it writes to the User table.                                    *)
(***************************************************************************)
LoginAnswered == authReq # Null /\ authRes # Null /\ authReq[1].route = "login"
LoginStep == authReq' # Null /\ authReq'[1].route = "login" /\ authReq' # authReq
WrongPassword(table, email, password) ==
    \A id \in UsersByEmail(table, email) :
        ~bcryptCompare(password, table[id][1].passwordHash)
WithoutEmail(table, email) ==
    [id \in DOMAIN table |-> IF id \in UsersByEmail(table, email) THEN Null ELSE table[id]]
AnswersWithoutEmail(answers, email) ==
    IF answers = <<>> \/ answers[1].rejected THEN answers
    ELSE <<Resolved(UserItem(WithoutEmail(userTable, email), email, 0))>>

C28_LoginDoesNotReveal ==
    /\ [](LoginAnswered /\ WrongPassword(userTable, authReq[1].email, authReq[1].password) =>
            /\ authRes = LoginRoute(authReq[1].email, authReq[1].password,
                                    AnswersWithoutEmail(authReq[1].answers, authReq[1].email),
                                    authReq[1].now).res
            /\ (authReq[1].answers # <<>> /\ ~authReq[1].answers[1].rejected) =>
                   /\ authRes[1].status = 401
                   /\ authRes[1].code = "INVALID_CREDENTIALS"
                   /\ authRes[1].message = "Email or password is incorrect"
            /\ authRes[1].data = Null)
    /\ [][(LoginStep /\ WrongPassword(userTable, authReq'[1].email, authReq'[1].password))
              => userTable' = userTable]_vars

C28_Witness ==
    /\ LoginAnswered
    /\ authReq[1].password = PasswordB
    /\ authReq[1].calls = <<"Query", "compare">>
    /\ storeUp
    /\ authRes[1].status = 401
    /\ \E id \in DOMAIN userTable : userTable[id] # Null /\ userTable[id][1].lastLogin # Null

(***************************************************************************)
(* What the last call of the service emitted.                              *)
(***************************************************************************)
Called(op) == lastCall # Null /\ lastCall[1].op = op
EmittedFor(event) ==
    {lastCall[1].emitted[k].lotId :
        k \in {j \in DOMAIN lastCall[1].emitted : lastCall[1].emitted[j].event = event}}

(***************************************************************************)
(* C25: after subscribeToVisible(L) on a connected socket subscribedLots   *)
(* is the set of L; 'unsubscribe' was emitted exactly for the lots that    *)
(* were subscribed and are not in L, 'subscribe' exactly for the lots of L *)
(* that were not subscribed, once each; and once the server has handled    *)
(* the messages the socket's rooms are L.  On a socket that is not         *)
(* connected nothing is emitted and subscribedLots is unchanged.           *)
(***************************************************************************)
C25_SubscribeToVisible ==
    Called("subscribeToVisible") =>
        LET L == Range(lastCall[1].arg)
            before == Range(lastCall[1].before)
        IN  IF lastCall[1].connected
            THEN /\ EmittedFor("unsubscribe") = before \ L
                 /\ EmittedFor("subscribe") = L \ before
                 /\ Len(lastCall[1].emitted) =
                        Cardinality(before \ L) + Cardinality(L \ before)
                 /\ Range(subscribedLots) = L
                 /\ (SocketConnected(socket) /\ channel = <<>>) => rooms = L
            ELSE /\ lastCall[1].emitted = <<>>
                 /\ subscribedLots = lastCall[1].before

C25_Witness ==
    /\ Called("subscribeToVisible")
    /\ lastCall[1].connected
    /\ lastCall[1].before = <<"lot-1">>
    /\ lastCall[1].arg = <<"lot-2", "lot-2">>
    /\ lastCall[1].emitted = <<Emit("unsubscribe", "lot-1"), Emit("subscribe", "lot-2")>>
    /\ SocketConnected(socket)
    /\ channel = <<>>
    /\ rooms = {"lot-2"}

(***************************************************************************)
(* The sockets of the client: this.socket, if any, and the sockets that    *)
(* connect() replaced.                                                     *)
(***************************************************************************)
ClientSockets ==
    (IF socket = Null THEN <<>>
     ELSE <<[connected |-> socket[1].connected, channel |-> channel, rooms |-> rooms]>>)
    \o orphans

(***************************************************************************)
(* Every message the client emitted has been handled by the server.        *)
(***************************************************************************)
AllDelivered ==
    /\ socket # Null => socket[1].connected
    /\ \A k \in DOMAIN ClientSockets :
           ClientSockets[k].connected => ClientSockets[k].channel = <<>>

(***************************************************************************)
(* A socket of the client connects in this step.                           *)
(***************************************************************************)
SocketConnects ==
    \/ socket # Null /\ ~SocketConnected(socket) /\ SocketConnected(socket')
    \/ \E k \in DOMAIN orphans :
           /\ Len(orphans') = Len(orphans)
           /\ ~orphans[k].connected
           /\ orphans'[k].connected

(***************************************************************************)
(* C26: whenever a socket of the client connects, subscribedLots is left   *)
(* alone and, when the service has a socket, the 'connect' handler emits a *)
(* 'subscribe' for every lot in subscribedLots; once the messages have     *)
(* been delivered, the server-side socket of every connected socket of the *)
(* client has joined the room of every subscribed lot; disconnect()        *)
(* empties subscribedLots, and without a socket subscribedLots is empty,   *)
(* so the next connection resubscribes nothing.                            *)
(***************************************************************************)
C26_Resubscribe ==
    /\ [][SocketConnects =>
              /\ subscribedLots' = subscribedLots
              /\ socket # Null => lastCall'[1].emitted = Resubscribe(subscribedLots)]_vars
    /\ [][(socket # Null /\ socket' = Null) => subscribedLots' = <<>>]_vars
    /\ [](AllDelivered =>
              \A k \in DOMAIN ClientSockets :
                  ClientSockets[k].connected =>
                      Range(subscribedLots) \subseteq ClientSockets[k].rooms)
    /\ [](socket = Null => subscribedLots = <<>>)

(***************************************************************************)
(* C23: every lot of the client store has 0 <= availableSpaces <=          *)
(* totalSpaces, 0 <= occupiedSpaces <= totalSpaces and an occupancyRate in *)
(* [0, 100].                                                               *)
(***************************************************************************)
InPercentRange(r) == r.den > 0 /\ 0 <= r.num /\ r.num <= 100 * r.den

C23_CountsInRange ==
    \A id \in StoredLotIds :
        lotsState.byId[id] # Null =>
            LET lot == lotsState.byId[id][1]
            IN  /\ 0 <= lot.availableSpaces /\ lot.availableSpaces <= lot.totalSpaces
                /\ 0 <= lot.occupiedSpaces /\ lot.occupiedSpaces <= lot.totalSpaces
                /\ InPercentRange(lot.occupancyRate)

(***************************************************************************)
(* C24: allIds has no duplicates and is exactly the key set of byId, so    *)
(* selectAllLots yields every stored lot and no undefined entry.           *)
(***************************************************************************)
C24_AllIdsAreKeys ==
    /\ \A i, j \in DOMAIN lotsState.allIds :
           lotsState.allIds[i] = lotsState.allIds[j] => i = j
    /\ Range(lotsState.allIds) = {id \in StoredLotIds : lotsState.byId[id] # Null}
    /\ \A k \in DOMAIN lotsState.allIds : selectAllLots(lotsState)[k] # Null
    /\ \A id \in StoredLotIds :
           lotsState.byId[id] # Null => lotsState.byId[id] \in Range(selectAllLots(lotsState))

CompletedLive(c) == LotsLive(c)

(***************************************************************************)
(* C29 as stated: once useMockData is true, no getAllLots call completes   *)
(* with live store data, the calls that were awaiting the store when the   *)
(* flag was set included.                                                  *)
(***************************************************************************)
C29_NoLiveAfterLatch ==
    \A c \in CallIds : CompletedLive(c) => ~lotsCalls[c].latchAtReturn

(***************************************************************************)
(* C29, amended: once useMockData is true, no getAllLots call that starts  *)
(* afterwards completes with live store data: it returns the mock lots     *)
(* without a store command; and the flag a call saw set is set when it     *)
(* returns.                                                                *)
(***************************************************************************)
C29_NoLiveStartedAfterLatch ==
    \A c \in CallIds :
        (lotsCalls[c].pc # "idle" /\ lotsCalls[c].latchAtStart) =>
            /\ lotsCalls[c].pc = "done"
            /\ lotsCalls[c].value = Some(MOCK_LOTS)
            /\ lotsCalls[c].sent = <<>>
            /\ lotsCalls[c].latchAtReturn
            /\ useMockData

(***************************************************************************)
(* A call that was awaiting the store when the flag was set has returned   *)
(* live lots, next to a call that started after the flag was set and has   *)
(* returned the mock lots.                                                 *)
(***************************************************************************)
C29_Witness ==
    \E c, d \in CallIds :
        /\ CompletedLive(c) /\ lotsCalls[c].latchAtReturn /\ ~lotsCalls[c].latchAtStart
        /\ lotsCalls[d].pc = "done" /\ lotsCalls[d].latchAtStart

SingleLotRoutes == {"lot", "spaces", "prediction"}
SingleLotAnswered == Answered /\ Route \in SingleLotRoutes /\ Status # 400
MockListed(lotId) == \E k \in DOMAIN MOCK_LOTS : MOCK_LOTS[k].lotId = lotId

(***************************************************************************)
(* C30: getLotById, getSpacesByLotId and getPrediction neither write nor   *)
(* read useMockData and never return mock data: whatever the latch is, a   *)
(* single-lot request that reaches the service starts with a Get on the    *)
(* store; it is answered 500 INTERNAL_ERROR when the store fails, 404 when *)
(* the store has no such lot, and otherwise 200 with the store's counts,   *)
(* also for a lot id that MOCK_LOTS lists.                                 *)
(***************************************************************************)
C30_SingleLotNeverMock ==
    /\ [][(req' # Null /\ req' # req /\ req'[1].route \in SingleLotRoutes)
              => useMockData' = useMockData]_vars
    /\ [](SingleLotAnswered =>
            /\ calls # <<>> /\ calls[1] = "Get"
            /\ (~GetAnswered \/ (~StoreAnswers /\ lotTable[req[1].lotId] # Null)) =>
                   /\ Status = 500
                   /\ res[1].code = "INTERNAL_ERROR"
                   /\ res[1].data = Null
            /\ (GetAnswered /\ lotTable[req[1].lotId] = Null) =>
                   Status = 404 /\ res[1].code = "LOT_NOT_FOUND"
            /\ (StoreAnswers /\ lotTable[req[1].lotId] # Null) =>
                   /\ Status = 200
                   /\ Route = "lot" =>
                          /\ Data.availableSpaces = Stored(req[1].lotId, "available")
                          /\ Data.occupiedSpaces = Stored(req[1].lotId, "occupied")
                          /\ Data.offlineSpaces = Stored(req[1].lotId, "offline")
                   /\ Route = "spaces" =>
                          /\ Data.totalCount <= StoredSpaces(req[1].lotId)
                          /\ \A k \in DOMAIN Data.spaces :
                                 Data.spaces[k] \in Range(spaceTable)
                   /\ Route = "prediction" =>
                          Data.currentAvailable = Stored(req[1].lotId, "available"))

(***************************************************************************)
(* The latch is set, the store is unreachable, and a single-lot request    *)
(* for a lot that MOCK_LOTS lists has been answered 500.                   *)
(***************************************************************************)
C30_Witness ==
    /\ SingleLotAnswered
    /\ useMockData
    /\ ~storeUp
    /\ MockListed(req[1].lotId)
    /\ Status = 500
====
